---- MODULE Spec2Model ----
(***************************************************************************)
(* A model of the match-scoring engine of de-ghoster                       *)
(* (src/src/services/job_matcher.py, src/src/models/data_models.py).       *)
(*                                                                         *)
(* Representation.                                                         *)
(*  - A Python str is a sequence of one-character strings, so that         *)
(*    lower(), strip(), `in`, startswith() and tokenisation are computed.  *)
(*  - Numbers are fixed point.  A score (0..100 points) is an integer      *)
(*    number of hundredths of a point (0..10000); overall_score is kept    *)
(*    in ten-thousandths of a point (0..1000000) so that the weighted sum  *)
(*    0.6/0.25/0.15 is exact; a similarity or a ratio in [0,1] is an       *)
(*    integer number of thousandths (0..1000), rounded down.               *)
(*    IEEE-754 rounding of the last bit is not modelled.                   *)
(***************************************************************************)
EXTENDS Integers, Sequences, FiniteSets, TLC

VARIABLES
    cv,          \* the CVData passed to analyze_job_match
    job,         \* the JobPosting passed to analyze_job_match
    vectorizer,  \* JobMatcher.vectorizer: the fitted state of the shared TfidfVectorizer
    adapter,     \* what self.chain's LLM did in the last invocation
    result,      \* how the last analyze_job_match ended: a JobAnalysis or an exception
    call,        \* arguments of a direct call of one of JobMatcher's helper methods
    ret          \* what that direct call returned

vars == <<cv, job, vectorizer, adapter, result, call, ret>>

(***************************************************************************)
(* Bounds of the model.                                                    *)
(***************************************************************************)
MaxYears == 8        \* experience_years ranges over 0..MaxYears
MaxMatches == 4      \* key_matches holds at most this many entries
MaxGaps == 3         \* gaps holds at most this many entries

(***************************************************************************)
(* Python str operations.                                                  *)
(***************************************************************************)
UpperCase == <<"A","B","C","D","E","F","G","H","I","J","K","L","M","N","O","P","Q","R","S","T","U","V","W","X","Y","Z">>
LowerCase == <<"a","b","c","d","e","f","g","h","i","j","k","l","m","n","o","p","q","r","s","t","u","v","w","x","y","z">>
Digits == <<"0","1","2","3","4","5","6","7","8","9">>

Range(s) == {s[i] : i \in DOMAIN s}

\* the lower-case letter of each upper-case letter
LowerOf ==
    ("A" :> "a") @@ ("B" :> "b") @@ ("C" :> "c") @@ ("D" :> "d") @@ ("E" :> "e") @@
    ("F" :> "f") @@ ("G" :> "g") @@ ("H" :> "h") @@ ("I" :> "i") @@ ("J" :> "j") @@
    ("K" :> "k") @@ ("L" :> "l") @@ ("M" :> "m") @@ ("N" :> "n") @@ ("O" :> "o") @@
    ("P" :> "p") @@ ("Q" :> "q") @@ ("R" :> "r") @@ ("S" :> "s") @@ ("T" :> "t") @@
    ("U" :> "u") @@ ("V" :> "v") @@ ("W" :> "w") @@ ("X" :> "x") @@ ("Y" :> "y") @@
    ("Z" :> "z")

\* one character of str.lower()
LowerChar(c) == IF c \in DOMAIN LowerOf THEN LowerOf[c] ELSE c

\* str.lower()
Lower(s) == [i \in 1..Len(s) |-> LowerChar(s[i])]

IsSpace(c) == c \in {" ", "\t", "\n"}

RECURSIVE LStrip(_)
LStrip(s) == IF s # <<>> /\ IsSpace(Head(s)) THEN LStrip(Tail(s)) ELSE s

RECURSIVE RStrip(_)
RStrip(s) ==
    IF s # <<>> /\ IsSpace(s[Len(s)]) THEN RStrip(SubSeq(s, 1, Len(s) - 1)) ELSE s

\* str.strip()
Strip(s) == RStrip(LStrip(s))

\* needle in hay
Contains(hay, needle) ==
    \/ needle = <<>>
    \/ \E i \in 1..(Len(hay) - Len(needle) + 1) :
          hay[i] = needle[1] /\ SubSeq(hay, i, i + Len(needle) - 1) = needle

\* s.startswith(p)
StartsWith(s, p) == Len(p) <= Len(s) /\ SubSeq(s, 1, Len(p)) = p

\* sep.join(parts)
RECURSIVE Join(_, _)
Join(sep, parts) ==
    IF parts = <<>> THEN <<>>
    ELSE IF Len(parts) = 1 THEN parts[1]
    ELSE parts[1] \o sep \o Join(sep, Tail(parts))

\* [s.lower() for s in strings]
RECURSIVE LowerAll(_)
LowerAll(strings) ==
    IF strings = <<>> THEN <<>> ELSE <<Lower(Head(strings))>> \o LowerAll(Tail(strings))

\* any(kw in s.lower() for kw in keywords)
ContainsAny(s, keywords) ==
    LET low == Lower(s) IN \E k \in DOMAIN keywords : Contains(low, keywords[k])

(***************************************************************************)
(* Fixed-point arithmetic.                                                 *)
(***************************************************************************)
Min(a, b) == IF a <= b THEN a ELSE b
Max(a, b) == IF a >= b THEN a ELSE b

RECURSIVE SumSeq(_)
SumSeq(s) == IF s = <<>> THEN 0 ELSE Head(s) + SumSeq(Tail(s))

RECURSIVE SumFn(_, _)
SumFn(f, S) ==
    IF S = {} THEN 0
    ELSE LET x == CHOOSE y \in S : TRUE IN f[x] + SumFn(f, S \ {x})

\* floor((q + r/den) * 10^digits), one decimal digit at a time
RECURSIVE LongDivStep(_, _, _, _)
LongDivStep(q, r, den, digits) ==
    IF digits = 0 THEN q
    ELSE LongDivStep(q * 10 + (r * 10) \div den, (r * 10) % den, den, digits - 1)

\* floor(num * 10^digits / den), den > 0, without forming num * 10^digits
LongDiv(num, den, digits) == LongDivStep(num \div den, num % den, den, digits)

RECURSIVE SqrtBetween(_, _, _)
SqrtBetween(n, lo, hi) ==
    IF lo >= hi THEN lo
    ELSE LET mid == (lo + hi + 1) \div 2
         IN  IF mid * mid <= n THEN SqrtBetween(n, mid, hi)
             ELSE SqrtBetween(n, lo, mid - 1)

\* floor(sqrt(n)) for 0 <= n <= 10^6
ISqrt(n) == SqrtBetween(n, 0, 1000)

(***************************************************************************)
(* Binary64 arithmetic, for the float that cosine_similarity computes.     *)
(* Natural numbers are little-endian sequences of limbs below Base with no *)
(* leading zero limb; a float is m * 2^e with m of exactly 53 bits, or     *)
(* zero.  Every operation rounds to nearest, ties to even.                 *)
(***************************************************************************)
Base == 2^15

\* F(x), with x evaluated first and once
With(x, F(_)) == CASE x = x -> F(x)

\* the greatest element of a nonempty set of integers
SetMax(S) == CHOOSE x \in S : \A y \in S : y <= x

\* a without its leading zero limbs
BTrim(a) ==
    CASE a = a -> SubSeq(a, 1, SetMax({0} \cup {i \in 1..Len(a) : a[i] # 0}))

\* limb i of a, 0 beyond its length
BLimb(a, i) == IF i >= 1 /\ i <= Len(a) THEN a[i] ELSE 0

\* the int of a number below Base^2
BToInt(a) == BLimb(a, 1) + Base * BLimb(a, 2)

BFromInt(n) == BTrim(<<n % Base, (n \div Base) % Base, n \div (Base * Base)>>)

\* the carry into limb i of a + b: a limb below i overflows and every limb
\* between the two hands a carry on
BCarry(a, b, i) ==
    IF \E j \in 1..(i - 1) :
           /\ BLimb(a, j) + BLimb(b, j) >= Base
           /\ \A k \in (j + 1)..(i - 1) : BLimb(a, k) + BLimb(b, k) = Base - 1
    THEN 1 ELSE 0

BAdd(a, b) ==
    CASE a = a /\ b = b ->
        BTrim([i \in 1..(Max(Len(a), Len(b)) + 1) |->
                  (BLimb(a, i) + BLimb(b, i) + BCarry(a, b, i)) % Base])

\* the borrow from limb i of a - b
BBorrow(a, b, i) ==
    IF \E j \in 1..(i - 1) :
           /\ BLimb(a, j) < BLimb(b, j)
           /\ \A k \in (j + 1)..(i - 1) : BLimb(a, k) = BLimb(b, k)
    THEN 1 ELSE 0

\* a - b for a >= b
BSub(a, b) ==
    CASE a = a /\ b = b ->
        BTrim([i \in 1..Len(a) |-> (a[i] - BLimb(b, i) - BBorrow(a, b, i)) % Base])

\* a < b: a limb of a is below b's and the limbs above it are equal
BLess(a, b) ==
    \E i \in 1..Len(b) :
        /\ BLimb(a, i) < b[i]
        /\ \A j \in (i + 1)..Max(Len(a), Len(b)) : BLimb(a, j) = BLimb(b, j)

\* -1, 0 or 1 as a is below, equal to or above b
BCmp(a, b) ==
    CASE a = a /\ b = b -> IF a = b THEN 0 ELSE IF BLess(a, b) THEN -1 ELSE 1

\* a * k for a limb k: the low halves of the limb products, plus their high
\* halves one limb up
BMulSmall(a, k) ==
    CASE a = a /\ k = k ->
        BAdd([i \in 1..Len(a) |-> (a[i] * k) % Base],
             [i \in 1..(Len(a) + 1) |-> IF i = 1 THEN 0 ELSE (a[i - 1] * k) \div Base])

ZeroLimbs(n) == [i \in 1..n |-> 0]

\* a times the limbs lo..hi of b, each in its place
RECURSIVE BMulLimbs(_, _, _, _)
BMulLimbs(a, b, lo, hi) ==
    IF lo = hi THEN ZeroLimbs(lo - 1) \o BMulSmall(a, b[lo])
    ELSE BAdd(BMulLimbs(a, b, lo, (lo + hi) \div 2),
              BMulLimbs(a, b, (lo + hi) \div 2 + 1, hi))

BMul(a, b) ==
    CASE a = a /\ b = b ->
        IF a = <<>> \/ b = <<>> THEN <<>> ELSE BMulLimbs(a, b, 1, Len(b))

\* a * 2^k
BShl(a, k) ==
    CASE a = a /\ k = k ->
        IF a = <<>> THEN <<>>
        ELSE ZeroLimbs(k \div 15) \o BMulSmall(a, 2^(k % 15))

\* floor(a / 2^k)
BShr(a, k) ==
    CASE a = a /\ k = k ->
        IF k \div 15 >= Len(a) THEN <<>>
        ELSE BTrim([i \in 1..(Len(a) - k \div 15) |->
                       a[i + k \div 15] \div 2^(k % 15)
                       + (BLimb(a, i + k \div 15 + 1) % 2^(k % 15)) * 2^(15 - (k % 15))])

\* the number of bits of x < 2^31
BitLenSmall(x) == Cardinality({k \in 0..30 : 2^k <= x})

BBitLen(a) == IF a = <<>> THEN 0 ELSE 15 * (Len(a) - 1) + BitLenSmall(a[Len(a)])

\* bit i of a, the lowest being bit 0
BBit(a, i) == (BLimb(a, i \div 15 + 1) \div 2^(i % 15)) % 2

\* are the k lowest bits of a all zero
BLowZero(a, k) == \A i \in 0..(k - 1) : BBit(a, i) = 0

\* floor(cur / d) for cur < d * Base and a d whose top limb is at least Base / 2:
\* the quotient of the top limbs is then at most 2 above it
BDivDigit(cur, d) ==
    With(Min(Base - 1, (BLimb(cur, Len(d) + 1) * Base + BLimb(cur, Len(d))) \div d[Len(d)]),
         LAMBDA est : IF BCmp(BMulSmall(d, est), cur) <= 0 THEN est
                      ELSE IF BCmp(BMulSmall(d, est - 1), cur) <= 0 THEN est - 1
                      ELSE est - 2)

\* one step of long division by d: limb x is brought down to the remainder
\* st[2] and the digit found is put before the quotient st[1]
BDivStep(x, d, st) ==
    With(BTrim(<<x>> \o st[2]), LAMBDA cur :
    With(BDivDigit(cur, d), LAMBDA digit :
         <<<<digit>> \o st[1], BSub(cur, BMulSmall(d, digit))>>))

\* long division by d of the limbs i down to 1 of n, st being <<quotient, remainder>>
\* of the limbs above them
RECURSIVE BDivLimbs(_, _, _, _)
BDivLimbs(n, d, i, st) ==
    CASE st = st ->
        IF i = 0 THEN <<BTrim(st[1]), st[2]>>
        ELSE BDivLimbs(n, d, i - 1, BDivStep(n[i], d, st))

\* <<quotient, remainder>> of ns by ds, the top limb of ds being Base / 2 or more:
\* the limbs of ns above the first that can give a digit are the remainder to start with
BDivFrom(ns, ds) ==
    CASE ns = ns /\ ds = ds ->
        BDivLimbs(ns, ds, Len(ns) - Len(ds) + 1,
                  <<<<>>, SubSeq(ns, Len(ns) - Len(ds) + 2, Len(ns))>>)

\* qr with its remainder shifted back by s bits
BDivUnshift(qr, s) == CASE qr = qr -> <<qr[1], BShr(qr[2], s)>>

\* n by d, both shifted by s bits
BDivShifted(n, d, s) == BDivUnshift(BDivFrom(BShl(n, s), BShl(d, s)), s)

\* <<quotient, remainder>> of n by d # 0; both are shifted to bring the top limb
\* of d to Base / 2 or more
BDivMod(n, d) ==
    CASE n = n /\ d = d ->
        IF BCmp(n, d) < 0 THEN <<<<>>, n>>
        ELSE BDivShifted(n, d, 15 - BitLenSmall(d[Len(d)]))

\* one step of Newton's iteration for sqrt(n): floor((x + floor(n / x)) / 2)
BSqrtStep(n, x) == BShr(BAdd(x, BDivMod(n, x)[1]), 1)

\* Newton's iteration downwards from x >= floor(sqrt(n)), y being the step after
\* x: the first x that the next one does not go below
RECURSIVE BSqrtNewton(_, _, _)
BSqrtNewton(n, x, y) ==
    CASE y = y ->
        IF BCmp(y, x) >= 0 THEN x ELSE BSqrtNewton(n, y, BSqrtStep(n, y))

\* the iteration from x on
BSqrtDown(n, x) == CASE x = x -> BSqrtNewton(n, x, BSqrtStep(n, x))

\* floor(sqrt(n)), starting above the root of the top bits of n, taken from the
\* even bit sh on and at most 16 of them
BSqrtFrom(n, sh) ==
    With(BToInt(BShr(n, sh)), LAMBDA top :
         BSqrtDown(n, BShl(BFromInt(1 + CHOOSE r \in 0..255 :
                                            r * r <= top /\ top < (r + 1) * (r + 1)),
                           sh \div 2)))

BSqrt(n) ==
    CASE n = n ->
        IF n = <<>> THEN <<>>
        ELSE BSqrtFrom(n, IF BBitLen(n) <= 16 THEN 0 ELSE 2 * ((BBitLen(n) - 15) \div 2))

FZero == [m |-> <<>>, e |-> 0]

\* n of len > 53 bits cut to the 53 bits keep, and one more when the bits cut
\* off are over half a unit, or half a unit and keep is odd
FRoundUp(n, len, sticky, keep) ==
    IF BBit(n, len - 54) = 1 /\ (sticky \/ ~BLowZero(n, len - 54) \/ keep[1] % 2 = 1)
    THEN BAdd(keep, <<1>>)
    ELSE keep

\* the float nearest to n * 2^e (ties to even); sticky says that the exact value
\* lies strictly above n * 2^e and below (n + 1) * 2^e, and then n has over 54 bits
FRound(n, e, sticky) ==
    CASE n = n /\ e = e ->
        IF n = <<>> THEN FZero
        ELSE With(BBitLen(n), LAMBDA len :
             IF len <= 53 THEN [m |-> BShl(n, 53 - len), e |-> e - (53 - len)]
             ELSE With(BShr(n, len - 53), LAMBDA keep :
                  With(FRoundUp(n, len, sticky, keep), LAMBDA kept :
                       IF BBitLen(kept) = 54
                       THEN [m |-> BShr(kept, 1), e |-> e + len - 52]
                       ELSE [m |-> kept, e |-> e + len - 53])))

\* float(k) for an int k
FromInt(k) ==
    IF k = 0 THEN FZero
    ELSE [m |-> BShl(<<k>>, 53 - BitLenSmall(k)), e |-> BitLenSmall(k) - 53]

FMul(a, b) ==
    CASE a = a /\ b = b ->
        IF a.m = <<>> \/ b.m = <<>> THEN FZero
        ELSE FRound(BMul(a.m, b.m), a.e + b.e, FALSE)

FAdd(a, b) ==
    CASE a = a /\ b = b ->
        IF a.m = <<>> THEN b
        ELSE IF b.m = <<>> THEN a
        ELSE FRound(BAdd(BShl(a.m, a.e - Min(a.e, b.e)), BShl(b.m, b.e - Min(a.e, b.e))),
                    Min(a.e, b.e), FALSE)

\* a / b for b # 0
FDiv(a, b) ==
    CASE a = a /\ b = b ->
        IF a.m = <<>> THEN FZero
        ELSE With(BDivMod(BShl(a.m, 56), b.m), LAMBDA qr :
                  FRound(qr[1], a.e - b.e - 56, qr[2] # <<>>))

\* sqrt(a): a.m is shifted by s bits to an even exponent and twice the bits of a float
FSqrtShifted(a, s) ==
    With(BShl(a.m, s), LAMBDA n :
    With(BSqrt(n), LAMBDA r :
         FRound(r, (a.e - s) \div 2, BMul(r, r) # n)))

FSqrt(a) ==
    CASE a = a ->
        IF a.m = <<>> THEN FZero
        ELSE FSqrtShifted(a, IF a.e % 2 = 0 THEN 58 ELSE 59)

\* a <= b for floats that are not negative
FLessEq(a, b) ==
    IF a.m = <<>> THEN TRUE
    ELSE IF b.m = <<>> THEN FALSE
    ELSE a.e < b.e \/ (a.e = b.e /\ BCmp(a.m, b.m) <= 0)

\* 1.0: 2^52 * 2^-52
FOne == [m |-> <<0, 0, 0, 128>>, e |-> -52]

(***************************************************************************)
(* The lexical similarity unit: TfidfVectorizer(stop_words='english',      *)
(* max_features=1000).fit_transform on the two joined skill strings, then  *)
(* cosine_similarity of the two rows.                                      *)
(***************************************************************************)
\* \w of the default token_pattern (?u)\b\w\w+\b, over the model's alphabet
WordChars == Range(LowerCase) \cup Range(UpperCase) \cup Range(Digits) \cup {"_"}
IsWordChar(c) == c \in WordChars

\* the members of sklearn's ENGLISH_STOP_WORDS that the model's texts can form
StopWords == {<<"g","o">>, <<"a","n","d">>, <<"i","n">>, <<"o","f">>, <<"t","h","e">>, <<"w","i","t","h">>, <<"f","o","r">>, <<"i","t">>, <<"i","s">>}

\* re.findall(token_pattern, doc): the maximal runs of two or more word characters
RECURSIVE WordRuns(_, _, _)
WordRuns(s, i, run) ==
    LET emit == IF Len(run) >= 2 THEN <<run>> ELSE <<>>
    IN  IF i > Len(s) THEN emit
        ELSE IF IsWordChar(s[i]) THEN WordRuns(s, i + 1, Append(run, s[i]))
        ELSE emit \o WordRuns(s, i + 1, <<>>)

\* build_analyzer(): lower-case, tokenise, drop stop words
Analyze(doc) == SelectSeq(WordRuns(Lower(doc), 1, <<>>), LAMBDA t : t \notin StopWords)

\* the term frequency of t in a token sequence
TermCount(t, tokens) == Cardinality({i \in DOMAIN tokens : tokens[i] = t})

\* max_features: keep the max_features terms of greatest corpus frequency
LimitFeatures(terms, tokens) ==
    IF Cardinality(terms) <= 1000 THEN terms
    ELSE CHOOSE kept \in SUBSET terms :
            /\ Cardinality(kept) = 1000
            /\ \A k \in kept, d \in terms \ kept : TermCount(k, tokens) >= TermCount(d, tokens)

\* the vocabulary fit_transform learns from the two documents' tokens
FitVocabulary(tokens1, tokens2) ==
    LimitFeatures(Range(tokens1) \cup Range(tokens2), tokens1 \o tokens2)

\* smooth idf squared, in thousandths: (ln((1+2)/(1+df)) + 1)^2 for the two documents
IdfSquared(df) == IF df = 2 THEN 1000 ELSE 1975

\* the order of code points among the characters a term can hold
CodePointOrder == Digits \o <<"_">> \o LowerCase
CodePoint(c) == CHOOSE i \in DOMAIN CodePointOrder : CodePointOrder[i] = c

\* a < b as Python compares strings
RECURSIVE TermBefore(_, _)
TermBefore(a, b) ==
    IF b = <<>> THEN FALSE
    ELSE IF a = <<>> THEN TRUE
    ELSE IF a[1] = b[1] THEN TermBefore(Tail(a), Tail(b))
    ELSE CodePoint(a[1]) < CodePoint(b[1])

\* get_feature_names_out(): the vocabulary in sorted order, the order of the columns
RECURSIVE SortedTerms(_)
SortedTerms(vocab) ==
    IF vocab = {} THEN <<>>
    ELSE LET first == CHOOSE t \in vocab : \A u \in vocab \ {t} : TermBefore(t, u)
         IN  <<first>> \o SortedTerms(vocab \ {first})

\* the number of the two documents that hold each feature: what fit_transform leaves
\* in the vectorizer as its idf_ weights, ln(3 / (1 + df)) + 1
DocumentFrequencies(tokens1, tokens2, features) ==
    [i \in 1..Len(features) |->
        (IF TermCount(features[i], tokens1) > 0 THEN 1 ELSE 0)
        + (IF TermCount(features[i], tokens2) > 0 THEN 1 ELSE 0)]

\* squared l2 norm of a document's tf-idf row under the weights of dfs, in thousandths
RowNormSquared(tokens, features, dfs) ==
    SumFn([i \in 1..Len(features) |->
              TermCount(features[i], tokens) * TermCount(features[i], tokens)
                * IdfSquared(dfs[i])],
          1..Len(features))

\* dot product of the two tf-idf rows under the weights of dfs, in thousandths
RowDot(tokens1, tokens2, features, dfs) ==
    SumFn([i \in 1..Len(features) |->
              TermCount(features[i], tokens1) * TermCount(features[i], tokens2)
                * IdfSquared(dfs[i])],
          1..Len(features))

\* cosine_similarity of the two rows that transform makes of the two documents'
\* counts with the idf_ weights of dfs, in thousandths; a row without terms has cosine 0
CosineWeighted(tokens1, tokens2, features, dfs) ==
    LET n1 == RowNormSquared(tokens1, features, dfs)
        n2 == RowNormSquared(tokens2, features, dfs)
        dot == RowDot(tokens1, tokens2, features, dfs)
    IN  IF n1 = 0 \/ n2 = 0 THEN 0
        ELSE ISqrt(LongDiv(dot * dot, n1 * n2, 6))

\* cosine_similarity(tfidf_matrix[0:1], tfidf_matrix[1:2])[0][0], in thousandths, the
\* weights being those fitted on the same two documents
CosineSimilarity(tokens1, tokens2, vocab) ==
    With(SortedTerms(vocab), LAMBDA features :
         CosineWeighted(tokens1, tokens2, features,
                        DocumentFrequencies(tokens1, tokens2, features)))

\* smooth idf of a term found in df of the two documents: ln(3 / (1 + df)) + 1,
\* which is 1.0 for df = 2 and 1.4054651081081644 for df = 1
IdfFloat(df) == IF df = 2 THEN FOne ELSE [m |-> <<26131, 30303, 29475, 179>>, e |-> -52]

\* the entry of a document's row for a term: tf * idf, the term being in df
\* of the two documents
TfidfEntry(tf, other_tf) ==
    FMul(FromInt(tf), IdfFloat((IF tf > 0 THEN 1 ELSE 0) + (IF other_tf > 0 THEN 1 ELSE 0)))

\* a document's row of tf * idf over the columns from i on
RECURSIVE TfidfRow(_, _, _, _)
TfidfRow(tokens, other, features, i) ==
    IF i > Len(features) THEN <<>>
    ELSE With(TfidfEntry(TermCount(features[i], tokens), TermCount(features[i], other)),
              LAMBDA entry : <<entry>> \o TfidfRow(tokens, other, features, i + 1))

\* the dot product of rows x and y from column i on, added to acc
RECURSIVE DotRows(_, _, _, _)
DotRows(x, y, i, acc) ==
    CASE acc = acc ->
        IF i > Len(x) THEN acc
        ELSE DotRows(x, y, i + 1, FAdd(acc, FMul(x[i], y[i])))

RECURSIVE DivideAll(_, _, _)
DivideAll(row, norm, i) ==
    IF i > Len(row) THEN <<>>
    ELSE With(FDiv(row[i], norm),
              LAMBDA entry : <<entry>> \o DivideAll(row, norm, i + 1))

\* normalize(row, norm='l2') applied `times` times over: a row of zeros is left as it is
RECURSIVE NormalizeL2(_, _)
NormalizeL2(row, times) ==
    IF times = 0 THEN row
    ELSE With(FSqrt(DotRows(row, row, 1, FZero)), LAMBDA norm :
              NormalizeL2(IF norm.m = <<>> THEN row ELSE DivideAll(row, norm, 1), times - 1))

\* the row of document d of docs as cosine_similarity multiplies it: fit_transform
\* normalises it and cosine_similarity normalises it again
NormalizedRow(docs, features, d) ==
    NormalizeL2(TfidfRow(docs[d], docs[3 - d], features, 1), 2)

\* cosine_similarity(tfidf_matrix[0:1], tfidf_matrix[1:2])[0][0] as the binary64 it is
CosineFloat(tokens1, tokens2, vocab) ==
    With(SortedTerms(vocab), LAMBDA features :
    With(NormalizedRow(<<tokens1, tokens2>>, features, 1), LAMBDA x :
    With(NormalizedRow(<<tokens1, tokens2>>, features, 2), LAMBDA y :
         DotRows(x, y, 1, FZero))))

\* the inner loop of _basic_skill_match with its break: 1 if some cv skill from
\* position j on matches job_skill, else 0
RECURSIVE InnerMatches(_, _, _)
InnerMatches(job_skill, cv_skills_lower, j) ==
    IF j > Len(cv_skills_lower) THEN 0
    ELSE IF Contains(cv_skills_lower[j], job_skill) \/ Contains(job_skill, cv_skills_lower[j])
         THEN 1
         ELSE InnerMatches(job_skill, cv_skills_lower, j + 1)

\* the same loop without the break: every matching cv skill counts
RECURSIVE InnerMatchesNoBreak(_, _, _)
InnerMatchesNoBreak(job_skill, cv_skills_lower, j) ==
    IF j > Len(cv_skills_lower) THEN 0
    ELSE (IF Contains(cv_skills_lower[j], job_skill) \/ Contains(job_skill, cv_skills_lower[j])
          THEN 1 ELSE 0)
         + InnerMatchesNoBreak(job_skill, cv_skills_lower, j + 1)

\* [skill.lower().strip() for skill in skills]
RECURSIVE LowerStripAll(_)
LowerStripAll(skills) ==
    IF skills = <<>> THEN <<>>
    ELSE <<Strip(Lower(Head(skills)))>> \o LowerStripAll(Tail(skills))

BasicSkillMatchNoBreak(cv_skills, job_skills) ==
    LET cv_skills_lower == LowerStripAll(cv_skills)
        job_skills_lower == LowerStripAll(job_skills)
        matches == SumSeq([i \in DOMAIN job_skills_lower |->
                              InnerMatchesNoBreak(job_skills_lower[i], cv_skills_lower, 1)])
    IN  IF job_skills_lower # <<>> THEN (matches * 1000) \div Len(job_skills_lower) ELSE 0

\* lines 116-124: the number of required skills that match some candidate skill
BasicSkillMatches(cv_skills, job_skills) ==
    LET cv_skills_lower == LowerStripAll(cv_skills)
        job_skills_lower == LowerStripAll(job_skills)
    IN  SumSeq([i \in DOMAIN job_skills_lower |->
                   InnerMatches(job_skills_lower[i], cv_skills_lower, 1)])

\* _basic_skill_match, in thousandths
BasicSkillMatch(cv_skills, job_skills) ==
    IF job_skills # <<>>
    THEN (BasicSkillMatches(cv_skills, job_skills) * 1000) \div Len(job_skills)
    ELSE 0

\* self.vectorizer before any fit: no vocabulary_, no idf_
Unfitted == [fitted |-> FALSE, vocabulary_ |-> {}, idf_ |-> <<>>]

\* self.vectorizer after fit_transform on the two documents
Fitted(tokens1, tokens2, vocab) ==
    [fitted |-> TRUE, vocabulary_ |-> vocab,
     idf_ |-> DocumentFrequencies(tokens1, tokens2, SortedTerms(vocab))]

\* fit_transform raises ValueError("empty vocabulary ...") when no term is left
VectorizationRaises(cv_skills, job_skills) ==
    FitVocabulary(Analyze(Join(<<" ">>, cv_skills)), Analyze(Join(<<" ">>, job_skills))) = {}

\* lines 105-113: vectorise, or fall back when that raises
VectoriseOrFallBack(cv_skills, job_skills, vec) ==
    LET cv_tokens == Analyze(Join(<<" ">>, cv_skills))
        job_tokens == Analyze(Join(<<" ">>, job_skills))
        vocab == FitVocabulary(cv_tokens, job_tokens)
    IN  IF vocab = {}
        THEN [value |-> BasicSkillMatch(cv_skills, job_skills), via |-> "fallback",
              vectorizer |-> vec]
        ELSE [value |-> CosineSimilarity(cv_tokens, job_tokens, vocab), via |-> "tfidf",
              vectorizer |-> Fitted(cv_tokens, job_tokens, vocab)]

\* _calculate_skill_similarity: the value in thousandths, the path taken, and the
\* state the call leaves self.vectorizer in
CalculateSkillSimilarity(cv_skills, job_skills, vec) ==
    IF cv_skills = <<>> \/ job_skills = <<>>
    THEN [value |-> 0, via |-> "empty", vectorizer |-> vec]
    ELSE VectoriseOrFallBack(cv_skills, job_skills, vec)

\* the binary64 that _calculate_skill_similarity returns on the path it takes
SimilarityFloat(cv_skills, job_skills, via) ==
    CASE via = "empty" -> FZero
      [] via = "fallback" ->
            FDiv(FromInt(BasicSkillMatches(cv_skills, job_skills)), FromInt(Len(job_skills)))
      [] via = "tfidf" ->
            LET cv_tokens == Analyze(Join(<<" ">>, cv_skills))
                job_tokens == Analyze(Join(<<" ">>, job_skills))
            IN  CosineFloat(cv_tokens, job_tokens, FitVocabulary(cv_tokens, job_tokens))

(***************************************************************************)
(* The dimension scorers.  Scores are in hundredths of a point.            *)
(***************************************************************************)
\* _calculate_experience_match with the 80% threshold exclusive
ExperienceMatchStrict(cv_experience, job_experience) ==
    IF job_experience = 0 THEN 10
    ELSE IF cv_experience >= job_experience THEN 10
    ELSE IF 10 * cv_experience > 8 * job_experience THEN 8
    ELSE IF 10 * cv_experience >= 6 * job_experience THEN 6
    ELSE IF 10 * cv_experience >= 4 * job_experience THEN 4
    ELSE 2

\* _calculate_experience_match, in tenths
CalculateExperienceMatch(cv_experience, job_experience) ==
    IF job_experience = 0 THEN 10
    ELSE IF cv_experience >= job_experience THEN 10
    ELSE IF 10 * cv_experience >= 8 * job_experience THEN 8
    ELSE IF 10 * cv_experience >= 6 * job_experience THEN 6
    ELSE IF 10 * cv_experience >= 4 * job_experience THEN 4
    ELSE 2

\* lines 147-149: 0.1 if some education entry names a degree
EducationBonus(education) ==
    IF education # <<>>
       /\ \E i \in DOMAIN education :
             /\ ContainsAny(education[i], <<<<"b","a","c","h","e","l","o","r">>, <<"m","a","s","t","e","r">>, <<"p","h","d">>, <<"d","e","g","r","e","e">>>>)
             /\ education[i] # <<>>
    THEN 1000 ELSE 0

\* lines 151-159 with relevant_certs incremented for every skill a certification contains
CertificationBonusPerSkill(certifications, skills_required) ==
    IF certifications # <<>>
    THEN LET relevant_certs ==
                 LET certs == LowerAll(certifications)
                     skills == LowerAll(skills_required)
                 IN  Cardinality({p \in (DOMAIN certs) \X (DOMAIN skills) :
                                     Contains(certs[p[1]], skills[p[2]])})
         IN  Min(1000, relevant_certs * 500)
    ELSE 0

\* lines 151-159: 0.05 per certification that contains some required skill, at most 0.1
CertificationBonus(certifications, skills_required) ==
    IF certifications # <<>>
    THEN LET relevant_certs ==
                 LET certs == LowerAll(certifications)
                     skills == LowerAll(skills_required)
                 IN  Cardinality({i \in DOMAIN certs :
                                     \E k \in DOMAIN skills : Contains(certs[i], skills[k])})
         IN  Min(1000, relevant_certs * 500)
    ELSE 0

\* _calculate_qualification_score without the min(100, .)
QualificationScoreUncapped(c, j, vec) ==
    LET sim == CalculateSkillSimilarity(c.skills, j.skills_required, vec)
        experience_match == CalculateExperienceMatch(c.experience_years, j.experience_required)
        education_bonus == EducationBonus(c.education)
        certification_bonus == CertificationBonus(c.certifications, j.skills_required)
        base_score == sim.value * 6 + experience_match * 400
        bonus_score == education_bonus + certification_bonus
    IN  [score |-> base_score + bonus_score,
         details |-> [skill_similarity |-> sim.value,
                      experience_match |-> experience_match,
                      education_bonus |-> education_bonus,
                      certification_bonus |-> certification_bonus,
                      base_score |-> base_score,
                      bonus_score |-> bonus_score],
         vectorizer |-> sim.vectorizer]

\* lines 145-174: _calculate_qualification_score once skill_similarity is known to be sim
QualificationGiven(c, j, sim) ==
    LET experience_match == CalculateExperienceMatch(c.experience_years, j.experience_required)
        education_bonus == EducationBonus(c.education)
        certification_bonus == CertificationBonus(c.certifications, j.skills_required)
        base_score == sim.value * 6 + experience_match * 400
        bonus_score == education_bonus + certification_bonus
    IN  [score |-> Min(10000, base_score + bonus_score),
         details |-> [skill_similarity |-> sim.value,
                      experience_match |-> experience_match,
                      education_bonus |-> education_bonus,
                      certification_bonus |-> certification_bonus,
                      base_score |-> base_score,
                      bonus_score |-> bonus_score],
         vectorizer |-> sim.vectorizer]

\* _calculate_qualification_score: (final_score, details), and the vectorizer's new state
CalculateQualificationScore(c, j, vec) ==
    QualificationGiven(c, j, CalculateSkillSimilarity(c.skills, j.skills_required, vec))

\* Optional[str] is a sequence of at most one str; `if x` holds for a non-empty str
NoneStr == <<>>
SomeStr(s) == <<s>>
Truthy(opt) == opt # <<>> /\ opt[1] # <<>>

\* _calculate_competition_score with the penalty applied from candidate years > required years
CompetitionPenaltyAboveRequired(c, j) ==
    LET base_competition == 5000
        overqualification_penalty ==
            IF c.experience_years > j.experience_required
            THEN Min(2000, (c.experience_years - j.experience_required) * 200)
            ELSE 0
        specialized_skills ==
            <<<<"a","i">>, <<"m","a","c","h","i","n","e"," ","l","e","a","r","n","i","n","g">>, <<"b","l","o","c","k","c","h","a","i","n">>, <<"q","u","a","n","t","u","m">>, <<"c","l","o","u","d"," ","a","r","c","h","i","t","e","c","t","u","r","e">>>>
        unique_skills_bonus ==
            Min(2000, 500 * Cardinality({i \in DOMAIN c.skills :
                                            ContainsAny(c.skills[i], specialized_skills)}))
        industry_experience_bonus ==
            IF Truthy(j.industry) /\ c.industries # <<>>
               /\ \E i \in DOMAIN c.industries :
                     LET cv_industry == Lower(c.industries[i])
                         job_industry == Lower(j.industry[1])
                     IN  Contains(cv_industry, job_industry)
                         \/ Contains(job_industry, cv_industry)
            THEN 1500 ELSE 0
        leadership_keywords ==
            <<<<"l","e","a","d">>, <<"m","a","n","a","g","e","r">>, <<"d","i","r","e","c","t","o","r">>, <<"s","e","n","i","o","r">>, <<"p","r","i","n","c","i","p","a","l">>, <<"a","r","c","h","i","t","e","c","t">>>>
        leadership_bonus ==
            IF \E i \in DOMAIN c.job_titles : ContainsAny(c.job_titles[i], leadership_keywords)
            THEN 1000 ELSE 0
        final_score == base_competition - overqualification_penalty + unique_skills_bonus
                         + industry_experience_bonus + leadership_bonus
    IN  [score |-> Max(0, Min(10000, final_score)),
         details |-> [base_competition |-> base_competition,
                      overqualification_penalty |-> overqualification_penalty,
                      unique_skills_bonus |-> unique_skills_bonus,
                      industry_experience_bonus |-> industry_experience_bonus,
                      leadership_bonus |-> leadership_bonus]]

\* _calculate_competition_score with the industry bonus left out of final_score
CompetitionWithoutIndustry(c, j) ==
    LET base_competition == 5000
        overqualification_penalty ==
            IF 2 * c.experience_years > 3 * j.experience_required
            THEN Min(2000, (c.experience_years - j.experience_required) * 200)
            ELSE 0
        specialized_skills ==
            <<<<"a","i">>, <<"m","a","c","h","i","n","e"," ","l","e","a","r","n","i","n","g">>, <<"b","l","o","c","k","c","h","a","i","n">>, <<"q","u","a","n","t","u","m">>, <<"c","l","o","u","d"," ","a","r","c","h","i","t","e","c","t","u","r","e">>>>
        unique_skills_bonus ==
            Min(2000, 500 * Cardinality({i \in DOMAIN c.skills :
                                            ContainsAny(c.skills[i], specialized_skills)}))
        industry_experience_bonus ==
            IF Truthy(j.industry) /\ c.industries # <<>>
               /\ \E i \in DOMAIN c.industries :
                     LET cv_industry == Lower(c.industries[i])
                         job_industry == Lower(j.industry[1])
                     IN  Contains(cv_industry, job_industry)
                         \/ Contains(job_industry, cv_industry)
            THEN 1500 ELSE 0
        leadership_keywords ==
            <<<<"l","e","a","d">>, <<"m","a","n","a","g","e","r">>, <<"d","i","r","e","c","t","o","r">>, <<"s","e","n","i","o","r">>, <<"p","r","i","n","c","i","p","a","l">>, <<"a","r","c","h","i","t","e","c","t">>>>
        leadership_bonus ==
            IF \E i \in DOMAIN c.job_titles : ContainsAny(c.job_titles[i], leadership_keywords)
            THEN 1000 ELSE 0
        final_score == base_competition - overqualification_penalty + unique_skills_bonus
                         + leadership_bonus
    IN  [score |-> Max(0, Min(10000, final_score)),
         details |-> [base_competition |-> base_competition,
                      overqualification_penalty |-> overqualification_penalty,
                      unique_skills_bonus |-> unique_skills_bonus,
                      industry_experience_bonus |-> industry_experience_bonus,
                      leadership_bonus |-> leadership_bonus]]

\* _calculate_competition_score: (final_score, details)
CalculateCompetitionScore(c, j) ==
    LET base_competition == 5000
        overqualification_penalty ==
            IF 2 * c.experience_years > 3 * j.experience_required
            THEN Min(2000, (c.experience_years - j.experience_required) * 200)
            ELSE 0
        specialized_skills ==
            <<<<"a","i">>, <<"m","a","c","h","i","n","e"," ","l","e","a","r","n","i","n","g">>, <<"b","l","o","c","k","c","h","a","i","n">>, <<"q","u","a","n","t","u","m">>, <<"c","l","o","u","d"," ","a","r","c","h","i","t","e","c","t","u","r","e">>>>
        unique_skills_bonus ==
            Min(2000, 500 * Cardinality({i \in DOMAIN c.skills :
                                            ContainsAny(c.skills[i], specialized_skills)}))
        industry_experience_bonus ==
            IF Truthy(j.industry) /\ c.industries # <<>>
               /\ \E i \in DOMAIN c.industries :
                     LET cv_industry == Lower(c.industries[i])
                         job_industry == Lower(j.industry[1])
                     IN  Contains(cv_industry, job_industry)
                         \/ Contains(job_industry, cv_industry)
            THEN 1500 ELSE 0
        leadership_keywords ==
            <<<<"l","e","a","d">>, <<"m","a","n","a","g","e","r">>, <<"d","i","r","e","c","t","o","r">>, <<"s","e","n","i","o","r">>, <<"p","r","i","n","c","i","p","a","l">>, <<"a","r","c","h","i","t","e","c","t">>>>
        leadership_bonus ==
            IF \E i \in DOMAIN c.job_titles : ContainsAny(c.job_titles[i], leadership_keywords)
            THEN 1000 ELSE 0
        final_score == base_competition - overqualification_penalty + unique_skills_bonus
                         + industry_experience_bonus + leadership_bonus
    IN  [score |-> Max(0, Min(10000, final_score)),
         details |-> [base_competition |-> base_competition,
                      overqualification_penalty |-> overqualification_penalty,
                      unique_skills_bonus |-> unique_skills_bonus,
                      industry_experience_bonus |-> industry_experience_bonus,
                      leadership_bonus |-> leadership_bonus]]

growth_indicators == <<<<"s","e","n","i","o","r">>, <<"l","e","a","d">>, <<"p","r","i","n","c","i","p","a","l">>, <<"m","a","n","a","g","e","r">>, <<"d","i","r","e","c","t","o","r">>>>

\* the loop of lines 225-229 with target_level kept at the first indicator found
RECURSIVE CareerLevelsFirstTarget(_, _, _, _, _)
CareerLevelsFirstTarget(job_titles, title, i, current_level, target_level) ==
    IF i > Len(growth_indicators) THEN <<current_level, target_level>>
    ELSE CareerLevelsFirstTarget(job_titles, title, i + 1,
            IF job_titles # <<>>
               /\ \E k \in DOMAIN job_titles : Contains(job_titles[k], growth_indicators[i])
            THEN Max(current_level, i) ELSE current_level,
            IF Contains(title, growth_indicators[i]) /\ target_level = 0
            THEN i ELSE target_level)

\* the loop of lines 225-229 from indicator i on, over the lower-cased titles:
\* <<current_level, target_level>>
RECURSIVE CareerLevels(_, _, _, _, _)
CareerLevels(job_titles, title, i, current_level, target_level) ==
    IF i > Len(growth_indicators) THEN <<current_level, target_level>>
    ELSE CareerLevels(job_titles, title, i + 1,
            IF job_titles # <<>>
               /\ \E k \in DOMAIN job_titles : Contains(job_titles[k], growth_indicators[i])
            THEN Max(current_level, i) ELSE current_level,
            IF Contains(title, growth_indicators[i]) THEN i ELSE target_level)

\* lines 242-248 with the enterprise signal tested before the startup signal
CompanySizeFitEnterpriseFirst(c, j) ==
    LET company == Lower(j.company)
        description == Lower(j.description)
    IN  IF Contains(company, <<"e","n","t","e","r","p","r","i","s","e">>) \/ Contains(description, <<"f","o","r","t","u","n","e">>)
        THEN (IF c.experience_years > 3 THEN 1000 ELSE 500)
        ELSE IF Contains(company, <<"s","t","a","r","t","u","p">>) \/ Contains(description, <<"s","m","a","l","l">>)
        THEN (IF c.experience_years < 5 THEN 1000 ELSE 500)
        ELSE 500

\* lines 242-248: company_size_fit
CompanySizeFit(c, j) ==
    LET company == Lower(j.company)
        description == Lower(j.description)
    IN  IF Contains(company, <<"s","t","a","r","t","u","p">>) \/ Contains(description, <<"s","m","a","l","l">>)
        THEN (IF c.experience_years < 5 THEN 1000 ELSE 500)
        ELSE IF Contains(company, <<"e","n","t","e","r","p","r","i","s","e">>) \/ Contains(description, <<"f","o","r","t","u","n","e">>)
        THEN (IF c.experience_years > 3 THEN 1000 ELSE 500)
        ELSE 500

\* the body of _calculate_strategic_score, lines 218-262: (final_score, details)
StrategicScoreOf(c, j) ==
    LET base_strategic == 6000
        levels == CareerLevels(LowerAll(c.job_titles), Lower(j.title), 1, 0, 0)
        current_level == levels[1]
        target_level == levels[2]
        career_growth_potential ==
            IF target_level > current_level THEN 2000
            ELSE IF target_level = current_level THEN 1000
            ELSE 0
        emerging_skills ==
            <<<<"a","i">>, <<"m","l">>, <<"c","l","o","u","d">>, <<"d","e","v","o","p","s">>, <<"k","u","b","e","r","n","e","t","e","s">>, <<"r","e","a","c","t">>, <<"p","y","t","h","o","n">>, <<"a","w","s">>>>
        job_emerging_skills ==
            Cardinality({i \in DOMAIN j.skills_required :
                            ContainsAny(j.skills_required[i], emerging_skills)})
        skill_development_bonus ==
            IF job_emerging_skills > 0 THEN Min(1500, job_emerging_skills * 300) ELSE 0
        company_size_fit == CompanySizeFit(c, j)
        final_score == base_strategic + career_growth_potential + skill_development_bonus
                         + company_size_fit
    IN  [score |-> Max(0, Min(10000, final_score)),
         details |-> [base_strategic |-> base_strategic,
                      career_growth_potential |-> career_growth_potential,
                      skill_development_bonus |-> skill_development_bonus,
                      company_size_fit |-> company_size_fit,
                      current_level |-> current_level,
                      target_level |-> target_level]]

\* _calculate_strategic_score(cv, job, analysis_data): analysis_data is never read
CalculateStrategicScore(c, j, analysis_data) == StrategicScoreOf(c, j)

(***************************************************************************)
(* Python values the adapter can hand back (what json.loads can produce).  *)
(***************************************************************************)
PyNone == [t |-> "None"]
PyStr(s) == [t |-> "str", s |-> s]
PyList(items) == [t |-> "list", items |-> items]
PyDict(d) == [t |-> "dict", d |-> d]

\* v.get(key, default); only a dict has .get
HasGet(v) == v.t = "dict"

\* v.get(key, default) that never finds the key
DictGetDefaultOnly(v, key, default) == default

\* v.get(key, default)
DictGet(v, key, default) == IF key \in DOMAIN v.d THEN v.d[key] ELSE default

\* len(v); None has no len()
HasLen(v) == v.t \in {"str", "list", "dict"}
PyLen(v) ==
    IF v.t = "str" THEN Len(v.s)
    ELSE IF v.t = "list" THEN Len(v.items)
    ELSE Cardinality(DOMAIN v.d)

(***************************************************************************)
(* MatchOutputParser.                                                      *)
(***************************************************************************)
\* the character U+2022
Bullet == "U+2022"

\* text.split('\n')
SplitLines(text) ==
    LET newlines == {i \in 1..Len(text) : text[i] = "\n"}
        n == Cardinality(newlines)
        \* the position of the k-th newline; 0 before the text, Len(text) + 1 after it
        Position(k) ==
            IF k = 0 THEN 0
            ELSE IF k = n + 1 THEN Len(text) + 1
            ELSE CHOOSE p \in newlines : Cardinality({q \in newlines : q < p}) = k - 1
    IN  [k \in 1..(n + 1) |-> SubSeq(text, Position(k - 1) + 1, Position(k) - 1)]

\* the loop of lines 33-40 with the test for a gaps header made first
RECURSIVE ScanLinesGapsFirst(_, _, _, _, _)
ScanLinesGapsFirst(lines, i, current_section, key_matches, gaps) ==
    IF i > Len(lines) THEN <<key_matches, gaps>>
    ELSE LET line == Strip(lines[i])
             item == Strip(Tail(line))
         IN  IF Contains(Lower(line), <<"g","a","p","s",":">>) \/ Contains(Lower(line), <<"w","e","a","k","n","e","s","s","e","s",":">>)
             THEN ScanLinesGapsFirst(lines, i + 1, "gaps", key_matches, gaps)
             ELSE IF Contains(Lower(line), <<"m","a","t","c","h","e","s",":">>) \/ Contains(Lower(line), <<"s","t","r","e","n","g","t","h","s",":">>)
             THEN ScanLinesGapsFirst(lines, i + 1, "key_matches", key_matches, gaps)
             ELSE IF line # <<>> /\ current_section # "None"
                     /\ (StartsWith(line, <<"-">>) \/ StartsWith(line, <<Bullet>>))
             THEN IF current_section = "key_matches"
                  THEN ScanLinesGapsFirst(lines, i + 1, current_section,
                                          Append(key_matches, item), gaps)
                  ELSE ScanLinesGapsFirst(lines, i + 1, current_section,
                                          key_matches, Append(gaps, item))
             ELSE ScanLinesGapsFirst(lines, i + 1, current_section, key_matches, gaps)

\* the loop of lines 33-40 from line i on, as <<key_matches, gaps>>
RECURSIVE ScanLines(_, _, _, _, _)
ScanLines(lines, i, current_section, key_matches, gaps) ==
    IF i > Len(lines) THEN <<key_matches, gaps>>
    ELSE LET line == Strip(lines[i])
             item == Strip(Tail(line))
         IN  IF Contains(Lower(line), <<"m","a","t","c","h","e","s",":">>) \/ Contains(Lower(line), <<"s","t","r","e","n","g","t","h","s",":">>)
             THEN ScanLines(lines, i + 1, "key_matches", key_matches, gaps)
             ELSE IF Contains(Lower(line), <<"g","a","p","s",":">>) \/ Contains(Lower(line), <<"w","e","a","k","n","e","s","s","e","s",":">>)
             THEN ScanLines(lines, i + 1, "gaps", key_matches, gaps)
             ELSE IF line # <<>> /\ current_section # "None"
                     /\ (StartsWith(line, <<"-">>) \/ StartsWith(line, <<Bullet>>))
             THEN IF current_section = "key_matches"
                  THEN ScanLines(lines, i + 1, current_section, Append(key_matches, item), gaps)
                  ELSE ScanLines(lines, i + 1, current_section, key_matches, Append(gaps, item))
             ELSE ScanLines(lines, i + 1, current_section, key_matches, gaps)

\* MatchOutputParser._extract_fallback
ExtractFallback(text) ==
    LET scanned == ScanLines(SplitLines(text), 1, "None", <<>>, <<>>)
    IN  PyDict([qualification_analysis |-> PyStr(<<>>),
                competition_analysis |-> PyStr(<<>>),
                strategic_analysis |-> PyStr(<<>>),
                key_matches |-> PyList(scanned[1]),
                gaps |-> PyList(scanned[2]),
                reasoning |-> PyStr(IF Len(text) > 500
                                    THEN SubSeq(text, 1, 500) \o <<".",".",".">>
                                    ELSE text)])

\* What json.loads does with the LLM's completion: it decodes the JSON encoding of a
\* value; it raises JSONDecodeError on text that is not JSON; and it raises another
\* exception, with message as its str(), on JSON that exceeds a limit of the
\* interpreter: RecursionError on arrays or objects nested deeper than the recursion
\* limit, ValueError on an integer of more digits than int() converts.
JsonText(value) == [loads |-> "decoded", value |-> value, raw |-> <<>>, message |-> <<>>]
RawText(chars) == [loads |-> "JSONDecodeError", value |-> PyNone, raw |-> chars, message |-> <<>>]
OverLimitText(error, message) == [loads |-> error, value |-> PyNone, raw |-> <<>>, message |-> message]

\* MatchOutputParser.parse: what it returns and by which branch, or what it raises
Parse(text) ==
    IF text.loads = "decoded"
    THEN [status |-> "returned", value |-> text.value, via |-> "json.loads"]
    ELSE IF text.loads = "JSONDecodeError"
    THEN [status |-> "returned", value |-> ExtractFallback(text.raw),
          via |-> "_extract_fallback"]
    ELSE [status |-> "raised", error |-> text.loads, message |-> text.message]

(***************************************************************************)
(* Confidence and recommendation.                                          *)
(***************************************************************************)
\* max(lo, min(hi, x))
Clamp(lo, hi, x) == Max(lo, Min(hi, x))

\* np.std([q, c, s]) > 20: nine times the population variance is the sum of the
\* squared pairwise differences
SpreadExceeds20(q, c, s) ==
    (q - c) * (q - c) + (q - s) * (q - s) + (c - s) * (c - s) > 9 * 400 * 10000

\* base_confidence with 20 points taken for a qualification score below 40
ConfidenceLowPenaltyTwenty(q, c, s, n_matches, n_gaps) ==
    7000
    + (IF q > 8000 THEN 1500 ELSE IF q > 6000 THEN 500 ELSE IF q < 4000 THEN -2000 ELSE 0)
    + (IF n_matches > 3 THEN 1000 ELSE 0)
    - (IF n_gaps > 2 THEN 1000 ELSE 0)
    - (IF SpreadExceeds20(q, c, s) THEN 1000 ELSE 0)

\* base_confidence with the key-match bonus from three entries on
ConfidenceFromThreeMatches(q, c, s, n_matches, n_gaps) ==
    7000
    + (IF q > 8000 THEN 1500 ELSE IF q > 6000 THEN 500 ELSE IF q < 4000 THEN -1500 ELSE 0)
    + (IF n_matches >= 3 THEN 1000 ELSE 0)
    - (IF n_gaps > 2 THEN 1000 ELSE 0)
    - (IF SpreadExceeds20(q, c, s) THEN 1000 ELSE 0)

\* base_confidence without the -15 of a qualification score below 40
ConfidenceWithoutLowPenalty(q, c, s, n_matches, n_gaps) ==
    7000
    + (IF q > 8000 THEN 1500 ELSE IF q > 6000 THEN 500 ELSE 0)
    + (IF n_matches > 3 THEN 1000 ELSE 0)
    - (IF n_gaps > 2 THEN 1000 ELSE 0)
    - (IF SpreadExceeds20(q, c, s) THEN 1000 ELSE 0)

\* lines 266-283: base_confidence before the final clamp, for n_matches key matches
\* and n_gaps gaps
ConfidenceBeforeClamp(q, c, s, n_matches, n_gaps) ==
    7000
    + (IF q > 8000 THEN 1500 ELSE IF q > 6000 THEN 500 ELSE IF q < 4000 THEN -1500 ELSE 0)
    + (IF n_matches > 3 THEN 1000 ELSE 0)
    - (IF n_gaps > 2 THEN 1000 ELSE 0)
    - (IF SpreadExceeds20(q, c, s) THEN 1000 ELSE 0)

\* a variant: ten points for every key match, and no upper clamp
ConfidencePerMatch(q, c, s, analysis_data) ==
    IF ~HasGet(analysis_data) THEN [status |-> "raised", error |-> "AttributeError"]
    ELSE LET key_matches == DictGet(analysis_data, "key_matches", PyList(<<>>))
             gaps == DictGet(analysis_data, "gaps", PyList(<<>>))
         IN  IF ~HasLen(key_matches) \/ ~HasLen(gaps)
             THEN [status |-> "raised", error |-> "TypeError"]
             ELSE With(ConfidenceBeforeClamp(q, c, s, 0, PyLen(gaps))
                         + 1000 * PyLen(key_matches),
                       LAMBDA base_confidence :
                           [status |-> "returned",
                            value |-> Max(2000, base_confidence),
                            base_confidence |-> base_confidence])

\* _calculate_confidence: the value, or the exception analysis_data makes it raise
CalculateConfidence(q, c, s, analysis_data) ==
    IF ~HasGet(analysis_data) THEN [status |-> "raised", error |-> "AttributeError"]
    ELSE LET key_matches == DictGet(analysis_data, "key_matches", PyList(<<>>))
             gaps == DictGet(analysis_data, "gaps", PyList(<<>>))
         IN  IF ~HasLen(key_matches) \/ ~HasLen(gaps)
             THEN [status |-> "raised", error |-> "TypeError"]
             ELSE With(ConfidenceBeforeClamp(q, c, s, PyLen(key_matches), PyLen(gaps)),
                       LAMBDA base_confidence :
                           [status |-> "returned",
                            value |-> Clamp(2000, 9500, base_confidence),
                            base_confidence |-> base_confidence])

\* _determine_recommendation without its second rule
DetermineRecommendationNoRuleTwo(overall_score, confidence, qualification_score) ==
    IF overall_score >= 750000 /\ confidence >= 7000 THEN "apply"
    ELSE IF overall_score >= 450000 /\ confidence >= 6000 THEN "maybe"
    ELSE "skip"

\* _determine_recommendation with the third rule from a confidence of 50 on
DetermineRecommendationLenient(overall_score, confidence, qualification_score) ==
    IF overall_score >= 750000 /\ confidence >= 7000 THEN "apply"
    ELSE IF overall_score >= 600000 /\ qualification_score >= 6000 THEN "apply"
    ELSE IF overall_score >= 450000 /\ confidence >= 5000 THEN "maybe"
    ELSE "skip"

\* rule 1 with > in place of >=
DetermineRecommendationStrict(overall_score, confidence, qualification_score) ==
    IF overall_score > 750000 /\ confidence > 7000 THEN "apply"
    ELSE IF overall_score >= 600000 /\ qualification_score >= 6000 THEN "apply"
    ELSE IF overall_score >= 450000 /\ confidence >= 6000 THEN "maybe"
    ELSE "skip"

\* _determine_recommendation; overall_score in ten-thousandths of a point
DetermineRecommendation(overall_score, confidence, qualification_score) ==
    IF overall_score >= 750000 /\ confidence >= 7000 THEN "apply"
    ELSE IF overall_score >= 600000 /\ qualification_score >= 6000 THEN "apply"
    ELSE IF overall_score >= 450000 /\ confidence >= 6000 THEN "maybe"
    ELSE "skip"

(***************************************************************************)
(* The aggregator, analyze_job_match.                                      *)
(***************************************************************************)
\* the except branch with "key_matches": None
DegradedAnalysisNullMatches(error) ==
    PyDict([qualification_analysis |-> PyStr(<<"A","n","a","l","y","s","i","s"," ","e","r","r","o","r",":"," ">> \o error),
            competition_analysis |-> PyStr(<<"U","n","a","b","l","e"," ","t","o"," ","a","n","a","l","y","z","e"," ","c","o","m","p","e","t","i","t","i","o","n"," ","f","a","c","t","o","r","s">>),
            strategic_analysis |-> PyStr(<<"U","n","a","b","l","e"," ","t","o"," ","a","n","a","l","y","z","e"," ","s","t","r","a","t","e","g","i","c"," ","f","a","c","t","o","r","s">>),
            key_matches |-> PyNone,
            gaps |-> PyList(<<>>),
            reasoning |-> PyStr(<<"A","n","a","l","y","s","i","s"," ","f","a","i","l","e","d"," ","d","u","e"," ","t","o"," ","e","r","r","o","r",":"," ">> \o error),
            confidence_factors |-> PyList(<<>>)])

\* lines 312-321: the payload substituted when self.chain.run raises e, str(e) = error
DegradedAnalysis(error) ==
    PyDict([qualification_analysis |-> PyStr(<<"A","n","a","l","y","s","i","s"," ","e","r","r","o","r",":"," ">> \o error),
            competition_analysis |-> PyStr(<<"U","n","a","b","l","e"," ","t","o"," ","a","n","a","l","y","z","e"," ","c","o","m","p","e","t","i","t","i","o","n"," ","f","a","c","t","o","r","s">>),
            strategic_analysis |-> PyStr(<<"U","n","a","b","l","e"," ","t","o"," ","a","n","a","l","y","z","e"," ","s","t","r","a","t","e","g","i","c"," ","f","a","c","t","o","r","s">>),
            key_matches |-> PyList(<<>>),
            gaps |-> PyList(<<>>),
            reasoning |-> PyStr(<<"A","n","a","l","y","s","i","s"," ","f","a","i","l","e","d"," ","d","u","e"," ","t","o"," ","e","r","r","o","r",":"," ">> \o error),
            confidence_factors |-> PyList(<<>>)])

\* lines 299-321: analysis_data after the try/except around self.chain.run
AnalysisData(outcome) ==
    IF outcome.outcome = "raises" THEN DegradedAnalysis(outcome.error)
    ELSE With(Parse(outcome.text), LAMBDA parsed :
              IF parsed.status = "raised" THEN DegradedAnalysis(parsed.message)
              ELSE parsed.value)

\* the weights 0.5 / 0.25 / 0.25
OverallScoreEvenTail(q, c, s) == 50 * q + 25 * c + 25 * s

\* lines 327-331, in ten-thousandths of a point
OverallScore(q, c, s) == 60 * q + 25 * c + 15 * s

\* the Field(ge=0, le=100) constraints of MatchScore
MatchScoreValid(ms) ==
    /\ ms.qualification_score >= 0 /\ ms.qualification_score <= 10000
    /\ ms.competition_score >= 0 /\ ms.competition_score <= 10000
    /\ ms.strategic_score >= 0 /\ ms.strategic_score <= 10000
    /\ ms.overall_score >= 0 /\ ms.overall_score <= 1000000
    /\ ms.confidence >= 0 /\ ms.confidence <= 10000

\* the field types of JobAnalysis: reasoning: str, key_matches, gaps: List[str]
JobAnalysisValid(reasoning, key_matches, gaps) ==
    reasoning.t = "str" /\ key_matches.t = "list" /\ gaps.t = "list"

\* lines 337-339 with the strategic score passed as the third argument
RecommendWrongArgument(overall_score, confidence, q, c, s) ==
    DetermineRecommendation(overall_score, confidence, s)

\* lines 337-339: the call of _determine_recommendation
Recommend(overall_score, confidence, q, c, s) ==
    DetermineRecommendation(overall_score, confidence, q)

Raised(error) == [status |-> "raised", error |-> error]

\* lines 324-366: the scoring and assembly that follow _calculate_qualification_score
Assemble(c, j, analysis_data, qual) ==
    With(CalculateCompetitionScore(c, j), LAMBDA comp :
    With(CalculateStrategicScore(c, j, analysis_data), LAMBDA strat :
    LET overall_score == OverallScore(qual.score, comp.score, strat.score)
        confidence == CalculateConfidence(qual.score, comp.score, strat.score, analysis_data)
    IN  IF confidence.status = "raised"
        THEN [result |-> Raised(confidence.error), vectorizer |-> qual.vectorizer]
        ELSE
        LET recommendation == Recommend(overall_score, confidence.value,
                                        qual.score, comp.score, strat.score)
            match_score == [qualification_score |-> qual.score,
                            competition_score |-> comp.score,
                            strategic_score |-> strat.score,
                            overall_score |-> overall_score,
                            confidence |-> confidence.value]
            reasoning == DictGet(analysis_data, "reasoning", PyStr(<<"N","o"," ","r","e","a","s","o","n","i","n","g"," ","p","r","o","v","i","d","e","d">>))
            key_matches == DictGet(analysis_data, "key_matches", PyList(<<>>))
            gaps == DictGet(analysis_data, "gaps", PyList(<<>>))
        IN  IF ~MatchScoreValid(match_score)
            THEN [result |-> Raised("MatchScore ValidationError"),
                  vectorizer |-> qual.vectorizer]
            ELSE IF ~JobAnalysisValid(reasoning, key_matches, gaps)
            THEN [result |-> Raised("JobAnalysis ValidationError"),
                  vectorizer |-> qual.vectorizer]
            ELSE [result |->
                    [status |-> "returned",
                     analysis |->
                       [id |-> <<"analysis", c.id, j.id, overall_score \div 10000>>,
                        cv_id |-> c.id,
                        job_id |-> j.id,
                        match_score |-> match_score,
                        recommendation |-> recommendation,
                        reasoning |-> reasoning.s,
                        key_matches |-> key_matches.items,
                        gaps |-> gaps.items,
                        metadata |-> [qualification_details |-> qual.details,
                                      competition_details |-> comp.details,
                                      strategic_details |-> strat.details,
                                      analysis_data |-> analysis_data]]],
                  vectorizer |-> qual.vectorizer]))

\* lines 323-366: scoring and assembly, given analysis_data
ScoreAndAssemble(c, j, analysis_data, vec) ==
    With(CalculateQualificationScore(c, j, vec), LAMBDA qual :
         Assemble(c, j, analysis_data, qual))

\* analyze_job_match: how the call ends and the state it leaves the vectorizer in
AnalyzeJobMatch(c, j, outcome, vec) == ScoreAndAssemble(c, j, AnalysisData(outcome), vec)

(***************************************************************************)
(* Inputs.                                                                 *)
(***************************************************************************)
SkillLists ==
    { <<>>,
      <<<<"p","y","t","h","o","n">>, <<"a","w","s">>, <<"d","o","c","k","e","r">>>>,
      <<<<"p","y","t","h","o","n">>, <<"k","u","b","e","r","n","e","t","e","s">>>>,
      <<<<"P","y","t","h","o","n"," ","3">>, <<"p","y","t","h","o","n">>>>,
      <<<<"M","a","c","h","i","n","e"," ","L","e","a","r","n","i","n","g">>, <<"A","I">>>>,
      <<<<"a","w","s">>>>,
      <<<<"G","o">>, <<"C">>>>,
      <<<<" ","g","o"," ">>, <<"R">>>>,
      <<<<"C","+","+">>, <<" ">>>> }

\* the skill lists of the resumes and of the postings that are analysed end to end
CvSkillLists ==
    { <<>>,
      <<<<"p","y","t","h","o","n">>, <<"a","w","s">>, <<"d","o","c","k","e","r">>>>,
      <<<<"G","o">>, <<"C">>>> }

JobSkillLists ==
    { <<<<"p","y","t","h","o","n">>, <<"k","u","b","e","r","n","e","t","e","s">>>>,
      <<<<"p","y","t","h","o","n">>, <<"a","w","s">>, <<"d","o","c","k","e","r">>>>,
      <<<<" ","g","o"," ">>, <<"R">>>> }

\* education, certifications, job titles and industries of a resume
CvBackgrounds ==
    { [education |-> <<>>, certifications |-> <<>>, job_titles |-> <<>>,
       industries |-> <<>>],
      [education |-> <<<<"H","i","g","h"," ","s","c","h","o","o","l">>, <<"B","S","c"," ","d","e","g","r","e","e">>>>,
       certifications |-> <<<<"A","W","S"," ","C","l","o","u","d">>, <<"S","c","r","u","m">>, <<"P","y","t","h","o","n"," ","P","C","A","P">>>>,
       job_titles |-> <<<<"D","e","v">>, <<"S","e","n","i","o","r"," ","D","e","v">>>>,
       industries |-> <<<<"F","i","n","t","e","c","h">>>>],
      [education |-> <<>>, certifications |-> <<>>,
       job_titles |-> <<<<"S","e","n","i","o","r"," ","D","e","v">>>>, industries |-> <<<<"F","i","n","t","e","c","h">>>>] }

\* title, company, description and industry of a posting
JobHeaders ==
    { [title |-> <<"E","n","g","i","n","e","e","r">>, company |-> <<"A","c","m","e">>, description |-> <<>>,
       industry |-> NoneStr],
      [title |-> <<"L","e","a","d"," ","E","n","g","i","n","e","e","r">>, company |-> <<"P","a","y","S","t","a","r","t","u","p">>,
       description |-> <<"s","m","a","l","l"," ","t","e","a","m">>, industry |-> SomeStr(<<"B","a","n","k","i","n","g",","," ","f","i","n","t","e","c","h">>)] }

CVs ==
    { [id |-> "cv1", skills |-> sk, experience_years |-> y, education |-> b.education,
       certifications |-> b.certifications, job_titles |-> b.job_titles,
       industries |-> b.industries] :
      sk \in CvSkillLists, y \in 0..MaxYears, b \in CvBackgrounds }

Jobs ==
    { [id |-> "job1", title |-> h.title, company |-> h.company,
       description |-> h.description, skills_required |-> sk,
       experience_required |-> y, industry |-> h.industry] :
      sk \in JobSkillLists, y \in {0, 5, MaxYears}, h \in JobHeaders }

\* n entries of a key_matches or gaps list
Entries(n) == [i \in 1..n |-> <<"i","t","e","m">>]

\* a well-formed semantic analysis with n_matches key matches and n_gaps gaps
SemanticAnalysis(n_matches, n_gaps) ==
    PyDict([qualification_analysis |-> PyStr(<<"o","k">>),
            competition_analysis |-> PyStr(<<"o","k">>),
            strategic_analysis |-> PyStr(<<"o","k">>),
            key_matches |-> PyList(Entries(n_matches)),
            gaps |-> PyList(Entries(n_gaps)),
            reasoning |-> PyStr(<<"G","o","o","d"," ","f","i","t">>)])

\* what self.chain.run can do: raise, or complete with some text
AdapterOutcomes ==
    { [outcome |-> "raises", error |-> <<"R","e","q","u","e","s","t"," ","t","i","m","e","d"," ","o","u","t">>, text |-> RawText(<<>>)] }
    \cup
    { [outcome |-> "responds", error |-> <<>>, text |-> t] :
      t \in { JsonText(SemanticAnalysis(0, 0)), JsonText(SemanticAnalysis(0, MaxGaps)),
              JsonText(SemanticAnalysis(MaxMatches, MaxGaps)) }
            \cup
            { JsonText(PyDict(<<>>)),
              JsonText(PyList(<<<<"G","o","o","d"," ","f","i","t">>>>)),
              JsonText(PyDict([key_matches |-> PyNone, gaps |-> PyList(<<>>),
                               reasoning |-> PyStr(<<"G","o","o","d"," ","f","i","t">>)])),
              JsonText(PyDict([key_matches |-> PyList(<<>>), gaps |-> PyList(<<>>),
                               reasoning |-> PyList(<<<<"G","o","o","d"," ","f","i","t">>>>)])),
              RawText(<<"S","t","r","e","n","g","t","h","s",":","\n","-"," ","p","y","t","h","o","n","\n","G","a","p","s",":","\n","-"," ","k","u","b","e","r","n","e","t","e","s">>),
              OverLimitText("RecursionError", <<"m","a","x","i","m","u","m"," ","r","e","c","u","r","s","i","o","n"," ","d","e","p","t","h"," ","e","x","c","e","e","d","e","d">>) } }

NoCall == [fn |-> "none"]
NoRet == [status |-> "none"]
NoCV == [id |-> "none"]
NoJob == [id |-> "none"]
NoAdapter == [outcome |-> "none"]
NoResult == [status |-> "none"]

(***************************************************************************)
(* Spec: one JobMatcher analysing a resume against a posting.              *)
(***************************************************************************)
Init ==
    /\ cv \in CVs
    /\ job \in Jobs
    /\ vectorizer = Unfitted
    /\ adapter = NoAdapter
    /\ result = NoResult
    /\ call = NoCall
    /\ ret = NoRet

\* analyze_job_match(cv, job), the adapter behaving as outcome
Analyse(outcome) ==
    /\ adapter' = outcome
    /\ With(AnalyzeJobMatch(cv, job, outcome, vectorizer), LAMBDA r :
            result' = r.result /\ vectorizer' = r.vectorizer)
    /\ UNCHANGED <<cv, job, call, ret>>

Next == \E outcome \in AdapterOutcomes : Analyse(outcome)

Spec == Init /\ [][Next]_vars

(***************************************************************************)
(* SpecSimilarity: _calculate_skill_similarity called directly.            *)
(***************************************************************************)
InitSimilarity ==
    /\ call \in [fn : {"_calculate_skill_similarity"},
                 cv_skills : SkillLists, job_skills : SkillLists]
    /\ ret = NoRet
    /\ vectorizer = Unfitted
    /\ cv = NoCV /\ job = NoJob /\ adapter = NoAdapter /\ result = NoResult

CallSkillSimilarity ==
    /\ call.fn = "_calculate_skill_similarity"
    /\ LET r == CalculateSkillSimilarity(call.cv_skills, call.job_skills, vectorizer)
       IN  /\ ret' = [status |-> "returned", value |-> r.value, via |-> r.via,
                       float |-> SimilarityFloat(call.cv_skills, call.job_skills, r.via)]
           /\ vectorizer' = r.vectorizer
    /\ UNCHANGED <<cv, job, adapter, result, call>>

NextSimilarity == CallSkillSimilarity

SpecSimilarity == InitSimilarity /\ [][NextSimilarity]_vars

(***************************************************************************)
(* SpecRecommendation: _determine_recommendation called directly.          *)
(***************************************************************************)
\* overall scores around the thresholds 45, 60 and 75, in ten-thousandths of a point
OverallGrid == {0, 449999, 450000, 599999, 600000, 749000, 749999, 750000, 1000000}
\* confidences and qualification scores around their thresholds, in hundredths
ConfidenceGrid == {2000, 5999, 6000, 6999, 7000, 9500}
QualificationGrid == {0, 5999, 6000, 10000}

InitRecommendation ==
    /\ call \in [fn : {"_determine_recommendation"}, overall_score : OverallGrid,
                 confidence : ConfidenceGrid, qualification_score : QualificationGrid]
    /\ ret = NoRet
    /\ vectorizer = Unfitted
    /\ cv = NoCV /\ job = NoJob /\ adapter = NoAdapter /\ result = NoResult

CallDetermineRecommendation ==
    /\ call.fn = "_determine_recommendation"
    /\ ret' = [status |-> "returned",
               value |-> DetermineRecommendation(call.overall_score, call.confidence,
                                                 call.qualification_score)]
    /\ UNCHANGED <<cv, job, vectorizer, adapter, result, call>>

NextRecommendation == CallDetermineRecommendation

SpecRecommendation == InitRecommendation /\ [][NextRecommendation]_vars

(***************************************************************************)
(* SpecConfidence: _calculate_confidence called directly.                  *)
(***************************************************************************)
\* dimension scores around the thresholds 40, 60 and 80, and 17.57 and 17.58,
\* in hundredths of a point: the standard deviation of (60, 60, x) passes 20 between
\* x = 17.58 and x = 17.57
ScoreGrid == {0, 1757, 1758, 2000, 3999, 4000, 6000, 6001, 8000, 8001, 10000}

\* semantic analyses with every number of key matches and gaps, the keys present or not
ConfidenceAnalyses ==
    { SemanticAnalysis(m, g) : m \in 0..MaxMatches, g \in 0..MaxGaps }
    \cup { PyDict(<<>>) }
    \cup { PyDict([key_matches |-> PyList(Entries(m))]) : m \in 0..MaxMatches }
    \cup { PyDict([gaps |-> PyList(Entries(g))]) : g \in 0..MaxGaps }

InitConfidence ==
    /\ call \in [fn : {"_calculate_confidence"}, qualification_score : ScoreGrid,
                 competition_score : ScoreGrid, strategic_score : ScoreGrid,
                 analysis_data : ConfidenceAnalyses]
    /\ ret = NoRet
    /\ vectorizer = Unfitted
    /\ cv = NoCV /\ job = NoJob /\ adapter = NoAdapter /\ result = NoResult

CallCalculateConfidence ==
    /\ call.fn = "_calculate_confidence"
    /\ ret' = CalculateConfidence(call.qualification_score, call.competition_score,
                                  call.strategic_score, call.analysis_data)
    /\ UNCHANGED <<cv, job, vectorizer, adapter, result, call>>

NextConfidence == CallCalculateConfidence

SpecConfidence == InitConfidence /\ [][NextConfidence]_vars

(***************************************************************************)
(* SpecTermination: analyze_job_match step by step around self.chain.run.  *)
(* The call of the adapter is made at line 300 with the client built at    *)
(* lines 46-50, which is given no timeout: the call ends when the adapter  *)
(* returns or raises, and not before.                                      *)
(***************************************************************************)
InitTermination ==
    /\ cv \in {c \in CVs : c.experience_years = 5}
    /\ job \in {j \in Jobs : j.experience_required = 5}
    /\ vectorizer = Unfitted
    /\ adapter = NoAdapter
    /\ result = NoResult
    /\ call = NoCall
    /\ ret = NoRet

\* analyze_job_match(cv, job) is entered and reaches self.chain.run(...)
Invoke ==
    /\ call = NoCall
    /\ call' = [fn |-> "analyze_job_match", at |-> "chain.run"]
    /\ adapter' = [outcome |-> "pending"]
    /\ UNCHANGED <<cv, job, vectorizer, result, ret>>

\* the adapter answers the pending request, or the request fails
AdapterCompletes(outcome) ==
    /\ adapter.outcome = "pending"
    /\ adapter' = outcome
    /\ UNCHANGED <<cv, job, vectorizer, result, call, ret>>

\* lines 299-366 once self.chain.run has returned or raised
ScoreAfterAdapter ==
    /\ call.fn = "analyze_job_match" /\ call.at = "chain.run"
    /\ adapter.outcome \in {"raises", "responds"}
    /\ With(AnalyzeJobMatch(cv, job, adapter, vectorizer), LAMBDA r :
            result' = r.result /\ vectorizer' = r.vectorizer)
    /\ call' = [fn |-> "analyze_job_match", at |-> "ended"]
    /\ UNCHANGED <<cv, job, adapter, ret>>

NextTermination ==
    \/ Invoke
    \/ \E outcome \in AdapterOutcomes : AdapterCompletes(outcome)
    \/ ScoreAfterAdapter

\* the step of ScoreAfterAdapter as seen on the invocation's position
Proceeds ==
    /\ call.fn = "analyze_job_match" /\ call.at = "chain.run"
    /\ adapter.outcome \in {"raises", "responds"}
    /\ call' = [fn |-> "analyze_job_match", at |-> "ended"]

\* the interpreter runs the invocation's own steps; nothing makes the adapter answer
SpecTermination == InitTermination /\ [][NextTermination]_vars /\ WF_call(Proceeds)

(***************************************************************************)
(* SpecConcurrent: two invocations of analyze_job_match on one JobMatcher, *)
(* hence on one self.vectorizer, each past its call of the adapter.  An    *)
(* invocation's call of fit_transform (line 109) is three steps on the     *)
(* shared object: the vocabulary is learnt from the two documents and      *)
(* stored, the idf_ weights are fitted to the counts and stored, and the   *)
(* counts are transformed with the idf_ weights the object then holds.     *)
(* call[t] is invocation t with its arguments and its position; ret[t] is  *)
(* what its _calculate_skill_similarity returns.                           *)
(***************************************************************************)
Threads == 1..2

\* the resumes and postings of the concurrent invocations
ConcurrentCVs ==
    { [c EXCEPT !.skills = sk] :
        c \in {x \in CVs : /\ x.experience_years = 5 /\ x.skills = <<>>
                            /\ x.education = <<>> /\ x.job_titles = <<>>},
        sk \in {<<>>, <<<<"p","y","t","h","o","n">>, <<"a","w","s">>, <<"d","o","c","k","e","r">>>>, <<<<"a","w","s">>>>, <<<<"G","o">>, <<"C">>>>} }

ConcurrentJobs == {j \in Jobs : j.experience_required = 5 /\ j.industry = NoneStr}

InitConcurrent ==
    /\ call \in [Threads -> [fn : {"analyze_job_match"}, cv : ConcurrentCVs,
                             job : ConcurrentJobs, at : {"fit_transform"}]]
    /\ ret = [t \in Threads |-> NoRet]
    /\ result = [t \in Threads |-> NoResult]
    /\ vectorizer = Unfitted
    /\ adapter \in {o \in AdapterOutcomes : o.outcome = "raises"}
    /\ cv = NoCV /\ job = NoJob

\* the two documents of invocation t as the analyzer tokenises them
CvTokens(t) == Analyze(Join(<<" ">>, call[t].cv.skills))
JobTokens(t) == Analyze(Join(<<" ">>, call[t].job.skills_required))

\* invocation t moves to position at
Moves(t, at) == call' = [call EXCEPT ![t].at = at]

\* _calculate_skill_similarity of invocation t returns similarity by path via
ReturnsSimilarity(t, similarity, via) ==
    /\ ret' = [ret EXCEPT ![t] = [value |-> similarity, via |-> via]]
    /\ Moves(t, "scoring")

\* CountVectorizer.fit_transform: an empty input returns 0.0 at line 103; an empty
\* vocabulary raises, and the bare except falls back; else vocabulary_ is stored
LearnVocabulary(t) ==
    /\ call[t].at = "fit_transform"
    /\ IF call[t].cv.skills = <<>> \/ call[t].job.skills_required = <<>>
       THEN /\ UNCHANGED vectorizer
            /\ ReturnsSimilarity(t, 0, "empty")
       ELSE IF FitVocabulary(CvTokens(t), JobTokens(t)) = {}
       THEN /\ UNCHANGED vectorizer
            /\ ReturnsSimilarity(t, BasicSkillMatch(call[t].cv.skills,
                                                    call[t].job.skills_required),
                                 "fallback")
       ELSE /\ vectorizer' = [vectorizer EXCEPT
                                 !.vocabulary_ = FitVocabulary(CvTokens(t), JobTokens(t))]
            /\ Moves(t, "_tfidf.fit")
            /\ UNCHANGED ret
    /\ UNCHANGED <<cv, job, adapter, result>>

\* TfidfTransformer.fit(X) that keeps the idf_ weights of a vectorizer already fitted
FitIdfOnce(t) ==
    /\ call[t].at = "_tfidf.fit"
    /\ vectorizer' =
           IF vectorizer.fitted THEN vectorizer
           ELSE [vectorizer EXCEPT
                    !.fitted = TRUE,
                    !.idf_ = DocumentFrequencies(CvTokens(t), JobTokens(t),
                                SortedTerms(FitVocabulary(CvTokens(t), JobTokens(t))))]
    /\ Moves(t, "_tfidf.transform")
    /\ UNCHANGED <<cv, job, adapter, result, ret>>

\* TfidfTransformer.fit(X): the idf_ weights of invocation t's counts are stored
FitIdf(t) ==
    /\ call[t].at = "_tfidf.fit"
    /\ vectorizer' = [vectorizer EXCEPT
                         !.fitted = TRUE,
                         !.idf_ = DocumentFrequencies(CvTokens(t), JobTokens(t),
                                     SortedTerms(FitVocabulary(CvTokens(t), JobTokens(t))))]
    /\ Moves(t, "_tfidf.transform")
    /\ UNCHANGED <<cv, job, adapter, result, ret>>

\* TfidfTransformer.transform(X) and cosine_similarity: the counts of invocation t are
\* weighted with the idf_ the vectorizer holds now; idf_ of another length raises
\* ValueError, and the bare except of line 112 falls back
TransformAndCompare(t) ==
    /\ call[t].at = "_tfidf.transform"
    /\ With(SortedTerms(FitVocabulary(CvTokens(t), JobTokens(t))), LAMBDA features :
          IF Len(vectorizer.idf_) # Len(features)
          THEN ReturnsSimilarity(t, BasicSkillMatch(call[t].cv.skills,
                                                    call[t].job.skills_required),
                                 "fallback")
          ELSE ReturnsSimilarity(t, CosineWeighted(CvTokens(t), JobTokens(t), features,
                                                   vectorizer.idf_),
                                 "tfidf"))
    /\ UNCHANGED <<cv, job, adapter, vectorizer, result>>

\* lines 145-366 of invocation t once skill_similarity is known
ScoreConcurrent(t) ==
    /\ call[t].at = "scoring"
    /\ result' = [result EXCEPT ![t] =
                     Assemble(call[t].cv, call[t].job, AnalysisData(adapter),
                              QualificationGiven(call[t].cv, call[t].job,
                                  [value |-> ret[t].value, via |-> ret[t].via,
                                   vectorizer |-> vectorizer])).result]
    /\ Moves(t, "ended")
    /\ UNCHANGED <<cv, job, adapter, vectorizer, ret>>

NextConcurrent ==
    \E t \in Threads :
        \/ LearnVocabulary(t)
        \/ FitIdf(t)
        \/ TransformAndCompare(t)
        \/ ScoreConcurrent(t)

SpecConcurrent == InitConcurrent /\ [][NextConcurrent]_vars

(***************************************************************************)
(* SpecParse: MatchOutputParser.parse called directly.                     *)
(***************************************************************************)
\* the lines an answer in prose is made of
ProseLines ==
    { <<>>, <<"S","t","r","e","n","g","t","h","s",":">>, <<"K","e","y"," ","m","a","t","c","h","e","s",":"," ","n","o","n","e">>, <<"-"," ","p","y","t","h","o","n">>, <<"G","A","P","S",":">>,
      <<Bullet>> \o <<" ","k","u","b","e","r","n","e","t","e","s">>, <<"{","\"","g","a","p","s","\"",":"," ","[">>,
      <<"-"," ","W","e","a","k","n","e","s","s","e","s",":"," ","f","e","w">>, <<"g","a","p","s",":"," ","a","n","d"," ","m","a","t","c","h","e","s",":">>, <<" "," ","-"," ","a","w","s"," ">>, <<"-">> }

\* texts that are not JSON: up to three lines of prose
ProseTexts ==
    { Join(<<"\n">>, lines) : lines \in UNION { [1..n -> ProseLines] : n \in 1..3 } }

\* a text of n characters that is not JSON: a header, a bullet line, and filling
LongProse(n) ==
    LET head == <<"G","a","p","s",":","\n","-"," ","g","o","\n">>
    IN  head \o [i \in 1..(n - Len(head)) |-> "x"]

\* the completions parse is called on
ParseTexts ==
    { JsonText(v) : v \in ConfidenceAnalyses \cup { PyNone, PyStr(<<"G","o","o","d"," ","f","i","t">>),
                                                     PyList(<<<<"G","o","o","d"," ","f","i","t">>>>) } }
    \cup { RawText(t) : t \in ProseTexts }
    \cup { RawText(LongProse(n)) : n \in {499, 500, 501, 503} }
    \cup { OverLimitText("RecursionError", <<"m","a","x","i","m","u","m"," ","r","e","c","u","r","s","i","o","n"," ","d","e","p","t","h"," ","e","x","c","e","e","d","e","d">>),
           OverLimitText("ValueError", <<"E","x","c","e","e","d","s"," ","t","h","e"," ","l","i","m","i","t"," ","f","o","r"," ","i","n","t","e","g","e","r"," ","s","t","r","i","n","g"," ","c","o","n","v","e","r","s","i","o","n">>) }

InitParse ==
    /\ call \in [fn : {"parse"}, text : ParseTexts]
    /\ ret = NoRet
    /\ vectorizer = Unfitted
    /\ cv = NoCV /\ job = NoJob /\ adapter = NoAdapter /\ result = NoResult

CallParse ==
    /\ call.fn = "parse"
    /\ ret' = Parse(call.text)
    /\ UNCHANGED <<cv, job, vectorizer, adapter, result, call>>

NextParse == CallParse

SpecParse == InitParse /\ [][NextParse]_vars

(***************************************************************************)
(* SpecScenario: analyze_job_match on the resumes and postings of two      *)
(* scenarios: a candidate a little above the required experience in the    *)
(* job's industry, and candidates with 1 year for jobs requiring MaxYears. *)
(***************************************************************************)
\* skills python, aws and docker, 6 years, industry fintech, nothing else
FintechCV ==
    [id |-> "cv1", skills |-> <<<<"p","y","t","h","o","n">>, <<"a","w","s">>, <<"d","o","c","k","e","r">>>>, experience_years |-> 6,
     education |-> <<>>, certifications |-> <<>>, job_titles |-> <<>>,
     industries |-> <<<<"f","i","n","t","e","c","h">>>>]

\* skills python and kubernetes, 5 years, industry fintech, nothing else
FintechJob ==
    [id |-> "job1", title |-> <<>>, company |-> <<>>, description |-> <<>>,
     skills_required |-> <<<<"p","y","t","h","o","n">>, <<"k","u","b","e","r","n","e","t","e","s">>>>, experience_required |-> 5,
     industry |-> SomeStr(<<"f","i","n","t","e","c","h">>)]

\* resumes with 1 year and no education or certification, of any skills
JuniorCVs ==
    { [c EXCEPT !.skills = sk] :
        c \in {x \in CVs : /\ x.experience_years = 1 /\ x.skills = <<>>
                            /\ x.education = <<>> /\ x.certifications = <<>>},
        sk \in SkillLists }

\* postings that require MaxYears years, of any skills
SeniorJobs ==
    { [j EXCEPT !.skills_required = sk] :
        j \in {x \in Jobs : /\ x.experience_required = MaxYears
                             /\ x.skills_required = <<<<"p","y","t","h","o","n">>, <<"k","u","b","e","r","n","e","t","e","s">>>>},
        sk \in SkillLists }

InitScenario ==
    /\ \E pair \in ({FintechCV} \X {FintechJob}) \cup (JuniorCVs \X SeniorJobs) :
          cv = pair[1] /\ job = pair[2]
    /\ vectorizer = Unfitted
    /\ adapter = NoAdapter
    /\ result = NoResult
    /\ call = NoCall
    /\ ret = NoRet

SpecScenario == InitScenario /\ [][Next]_vars

(***************************************************************************)
(* SpecUpdate: a stored resume that is scored with analyze_job_match and   *)
(* re-analysed with CVParser.update_cv_analysis, in any order.  Here cv    *)
(* carries parsed_data, the dictionary parse_cv built it from.             *)
(***************************************************************************)
\* the six keys that parse_cv and update_cv_analysis read from the parsed answer
ParsedFields(c) ==
    [skills |-> c.skills, experience_years |-> c.experience_years,
     education |-> c.education, certifications |-> c.certifications,
     job_titles |-> c.job_titles, industries |-> c.industries]

\* CVData(..., parsed_data=parsed_data) as parse_cv returns it
StoredCV(c) ==
    [f \in DOMAIN c \cup {"parsed_data"} |->
        IF f = "parsed_data" THEN ParsedFields(c) ELSE c[f]]

\* d[key] = value on a dict
SetItem(d, key, value) ==
    [k \in DOMAIN d \cup {key} |-> IF k = key THEN value ELSE d[k]]

\* what CVParser.chain.run can do: raise, or return what its parser made of the
\* answer: an object with all, some or none of the six keys, or a JSON list
UpdateOutcomes ==
    { [outcome |-> "raises", error |-> <<"R","e","q","u","e","s","t"," ","t","i","m","e","d"," ","o","u","t">>, value |-> PyNone] }
    \cup
    { [outcome |-> "responds", error |-> <<>>, value |-> v] :
      v \in { PyDict([skills |-> <<<<"p","y","t","h","o","n">>, <<"k","u","b","e","r","n","e","t","e","s">>>>, experience_years |-> MaxYears,
                      education |-> <<<<"M","S","c">>>>, certifications |-> <<>>,
                      job_titles |-> <<<<"L","e","a","d"," ","D","e","v">>>>, industries |-> <<<<"B","a","n","k","i","n","g">>>>]),
              PyDict([skills |-> <<<<"G","o">>, <<"C">>>>]),
              PyDict(<<>>),
              PyList(<<<<"p","y","t","h","o","n">>>>) } }

\* except branch, line 192: cv_data.parsed_data["update_error"] = str(e)
WithUpdateError(c, error) ==
    [c EXCEPT !.parsed_data = SetItem(@, "update_error", error)]

\* CVParser.update_cv_analysis(cv_data): the record it leaves and returns
UpdateCvAnalysis(c, outcome) ==
    IF outcome.outcome = "raises" THEN WithUpdateError(c, outcome.error)
    ELSE IF ~HasGet(outcome.value)
    THEN WithUpdateError(c, <<"'","l","i","s","t","'"," ","o","b","j","e","c","t"," ","h","a","s"," ","n","o"," ","a","t","t","r","i","b","u","t","e"," ","'","g","e","t","'">>)
    ELSE [c EXCEPT !.skills = DictGet(outcome.value, "skills", @),
                   !.experience_years = DictGet(outcome.value, "experience_years", @),
                   !.education = DictGet(outcome.value, "education", @),
                   !.certifications = DictGet(outcome.value, "certifications", @),
                   !.job_titles = DictGet(outcome.value, "job_titles", @),
                   !.industries = DictGet(outcome.value, "industries", @),
                   !.parsed_data = outcome.value.d]

InitUpdate ==
    /\ cv \in {StoredCV(c) : c \in {x \in CVs : /\ x.experience_years = 5
                                                 /\ x.skills # <<>>}}
    /\ job \in {j \in Jobs : j.experience_required = 5 /\ j.industry # NoneStr}
    /\ vectorizer = Unfitted
    /\ adapter = NoAdapter
    /\ result = NoResult
    /\ call = NoCall
    /\ ret = NoRet

\* update_cv_analysis(cv), the parser's adapter behaving as outcome
UpdateCv(outcome) ==
    /\ call' = [fn |-> "update_cv_analysis", outcome |-> outcome.outcome]
    /\ cv' = UpdateCvAnalysis(cv, outcome)
    /\ ret' = [status |-> "returned", value |-> cv']
    /\ UNCHANGED <<job, vectorizer, adapter, result>>

NextUpdate ==
    \/ \E outcome \in AdapterOutcomes : Analyse(outcome)
    \/ \E outcome \in UpdateOutcomes : UpdateCv(outcome)

SpecUpdate == InitUpdate /\ [][NextUpdate]_vars

(***************************************************************************)
(* SpecScorers: _calculate_experience_match, _calculate_qualification_score *)
(* and _calculate_competition_score called directly on a fresh JobMatcher.  *)
(***************************************************************************)
\* skill lists with none, two and five skills that contain a specialised keyword
ScorerSkillLists ==
    CvSkillLists
    \cup { <<<<"M","a","c","h","i","n","e"," ","L","e","a","r","n","i","n","g">>, <<"A","I">>>>,
           <<<<"A","I">>, <<"B","l","o","c","k","c","h","a","i","n">>, <<"Q","u","a","n","t","u","m"," ","M","L">>, <<"c","l","o","u","d"," ","a","r","c","h","i","t","e","c","t","u","r","e">>,
             <<"m","a","c","h","i","n","e"," ","l","e","a","r","n","i","n","g">>>> }

\* backgrounds with a certification that contains two required skills, with three
\* relevant certifications, and with an industry in another case than the posting's
ScorerBackgrounds ==
    CvBackgrounds
    \cup { [education |-> <<<<"M","A","S","T","E","R"," ","o","f"," ","S","c","i","e","n","c","e">>>>,
            certifications |-> <<<<"A","W","S"," ","a","n","d"," ","P","y","t","h","o","n">>>>,
            job_titles |-> <<<<"S","o","f","t","w","a","r","e"," ","A","r","c","h","i","t","e","c","t">>>>,
            industries |-> <<<<"F","I","N","T","E","C","H"," ","p","a","y","m","e","n","t","s">>>>],
           [education |-> <<<<"B","o","o","t","c","a","m","p">>>>,
            certifications |-> <<<<"A","W","S">>, <<"P","y","t","h","o","n">>, <<"D","o","c","k","e","r">>>>,
            job_titles |-> <<<<"D","e","v","e","l","o","p","e","r">>>>,
            industries |-> <<<<"R","e","t","a","i","l">>>>] }

ScorerHeaders ==
    JobHeaders
    \cup { [title |-> <<"E","n","g","i","n","e","e","r">>, company |-> <<"A","c","m","e">>, description |-> <<>>,
            industry |-> SomeStr(<<"f","i","n","t","e","c","h">>)],
           [title |-> <<"E","n","g","i","n","e","e","r">>, company |-> <<"A","c","m","e">>, description |-> <<>>,
            industry |-> SomeStr(<<>>)] }

ScorerCV(sk, y, b) ==
    [id |-> "cv1", skills |-> sk, experience_years |-> y, education |-> b.education,
     certifications |-> b.certifications, job_titles |-> b.job_titles,
     industries |-> b.industries]

ScorerJob(sk, y, h) ==
    [id |-> "job1", title |-> h.title, company |-> h.company,
     description |-> h.description, skills_required |-> sk,
     experience_required |-> y, industry |-> h.industry]

\* the arguments of the three calls
ScorerCalls ==
    [fn : {"_calculate_experience_match"},
     cv_experience : 0..MaxYears, job_experience : 0..MaxYears]
    \cup
    [fn : {"_calculate_qualification_score"},
     cv : { ScorerCV(sk, y, b) : sk \in CvSkillLists, y \in {1, 4, MaxYears},
                                 b \in ScorerBackgrounds },
     job : { ScorerJob(sk, y, h) : sk \in JobSkillLists, y \in {0, 5, MaxYears},
                                   h \in {hh \in JobHeaders : hh.industry = NoneStr} }]
    \cup
    [fn : {"_calculate_competition_score"},
     cv : { ScorerCV(sk, y, b) : sk \in ScorerSkillLists, y \in 0..MaxYears,
                                 b \in ScorerBackgrounds },
     job : { ScorerJob(<<<<"p","y","t","h","o","n">>, <<"k","u","b","e","r","n","e","t","e","s">>>>, y, h) :
             y \in 0..MaxYears, h \in ScorerHeaders }]

InitScorers ==
    /\ call \in ScorerCalls
    /\ ret = NoRet
    /\ vectorizer = Unfitted
    /\ cv = NoCV /\ job = NoJob /\ adapter = NoAdapter /\ result = NoResult

CallExperienceMatch ==
    /\ call.fn = "_calculate_experience_match"
    /\ ret = NoRet
    /\ ret' = [status |-> "returned",
               value |-> CalculateExperienceMatch(call.cv_experience, call.job_experience)]
    /\ UNCHANGED <<cv, job, vectorizer, adapter, result, call>>

CallQualificationScore ==
    /\ call.fn = "_calculate_qualification_score"
    /\ ret = NoRet
    /\ With(CalculateQualificationScore(call.cv, call.job, vectorizer), LAMBDA r :
            /\ ret' = [status |-> "returned", value |-> r.score, details |-> r.details]
            /\ vectorizer' = r.vectorizer)
    /\ UNCHANGED <<cv, job, adapter, result, call>>

CallCompetitionScore ==
    /\ call.fn = "_calculate_competition_score"
    /\ ret = NoRet
    /\ With(CalculateCompetitionScore(call.cv, call.job), LAMBDA r :
            ret' = [status |-> "returned", value |-> r.score, details |-> r.details])
    /\ UNCHANGED <<cv, job, vectorizer, adapter, result, call>>

NextScorers == CallExperienceMatch \/ CallQualificationScore \/ CallCompetitionScore

SpecScorers == InitScorers /\ [][NextScorers]_vars

(***************************************************************************)
(* SpecStrategic: _calculate_strategic_score called directly.              *)
(***************************************************************************)
\* candidate titles with no, one and several indicators, in any case
StrategicTitleLists ==
    { <<>>,
      <<<<"D","e","v">>>>,
      <<<<"S","e","n","i","o","r"," ","D","e","v">>>>,
      <<<<"D","e","v">>, <<"T","e","a","m"," ","L","e","a","d">>>>,
      <<<<"E","n","g","i","n","e","e","r","i","n","g"," ","M","a","n","a","g","e","r">>, <<"S","e","n","i","o","r"," ","D","e","v">>>>,
      <<<<"D","I","R","E","C","T","O","R">>>> }

\* job titles with no, one and two indicators
StrategicJobTitles ==
    { <<>>,
      <<"E","n","g","i","n","e","e","r">>,
      <<"S","e","n","i","o","r"," ","E","n","g","i","n","e","e","r">>,
      <<"L","e","a","d"," ","E","n","g","i","n","e","e","r">>,
      <<"S","e","n","i","o","r"," ","E","n","g","i","n","e","e","r","i","n","g"," ","M","a","n","a","g","e","r">>,
      <<"D","i","r","e","c","t","o","r">> }

\* required skills of which 0, 2 and 6 contain an emerging skill
StrategicSkillLists ==
    { <<>>,
      <<<<"G","o">>, <<"C">>>>,
      <<<<"p","y","t","h","o","n">>, <<"k","u","b","e","r","n","e","t","e","s">>>>,
      <<<<"A","I">>, <<"M","L">>, <<"C","l","o","u","d">>, <<"D","e","v","O","p","s">>, <<"R","e","a","c","t">>, <<"A","W","S">>>> }

\* company and description with no signal, one signal, and both signals
StrategicCompanies ==
    { [company |-> <<>>, description |-> <<>>],
      [company |-> <<"A","c","m","e">>, description |-> <<"a"," ","t","e","a","m">>],
      [company |-> <<"P","a","y","S","t","a","r","t","u","p">>, description |-> <<"a"," ","t","e","a","m">>],
      [company |-> <<"A","c","m","e">>, description |-> <<"S","m","a","l","l"," ","t","e","a","m">>],
      [company |-> <<"E","n","t","e","r","p","r","i","s","e"," ","C","o","r","p">>, description |-> <<"F","o","r","t","u","n","e"," ","5","0","0">>],
      [company |-> <<"S","t","a","r","t","u","p"," ","E","n","t","e","r","p","r","i","s","e">>, description |-> <<"a"," ","t","e","a","m">>],
      [company |-> <<"A","c","m","e">>, description |-> <<"s","m","a","l","l"," ","F","o","r","t","u","n","e"," ","5","0","0"," ","t","e","a","m">>] }

StrategicCalls ==
    [fn : {"_calculate_strategic_score"},
     cv : { [id |-> "cv1", skills |-> <<>>, experience_years |-> y, education |-> <<>>,
             certifications |-> <<>>, job_titles |-> titles, industries |-> <<>>] :
            y \in 0..MaxYears, titles \in StrategicTitleLists },
     job : { [id |-> "job1", title |-> title, company |-> co.company,
              description |-> co.description, skills_required |-> sk,
              experience_required |-> 5, industry |-> NoneStr] :
             title \in StrategicJobTitles, co \in StrategicCompanies,
             sk \in StrategicSkillLists },
     analysis_data : {SemanticAnalysis(0, 0)}]

InitStrategic ==
    /\ call \in StrategicCalls
    /\ ret = NoRet
    /\ vectorizer = Unfitted
    /\ cv = NoCV /\ job = NoJob /\ adapter = NoAdapter /\ result = NoResult

CallStrategicScore ==
    /\ call.fn = "_calculate_strategic_score"
    /\ ret = NoRet
    /\ With(CalculateStrategicScore(call.cv, call.job, call.analysis_data), LAMBDA r :
            ret' = [status |-> "returned", value |-> r.score, details |-> r.details])
    /\ UNCHANGED <<cv, job, vectorizer, adapter, result, call>>

NextStrategic == CallStrategicScore

SpecStrategic == InitStrategic /\ [][NextStrategic]_vars

(***************************************************************************)
(* SpecHistory: three invocations of analyze_job_match on one JobMatcher,  *)
(* one after the other.  Each runs the steps of SpecConcurrent on the      *)
(* vectorizer as the invocations before it have left it.                   *)
(***************************************************************************)
Calls == 1..3

InitHistory ==
    /\ call \in [Calls -> [fn : {"analyze_job_match"}, cv : ConcurrentCVs,
                           job : ConcurrentJobs, at : {"waiting"}]]
    /\ ret = [t \in Calls |-> NoRet]
    /\ result = [t \in Calls |-> NoResult]
    /\ vectorizer = Unfitted
    /\ adapter \in {o \in AdapterOutcomes :
                       \/ o.outcome = "raises"
                       \/ o.text = JsonText(SemanticAnalysis(MaxMatches, MaxGaps))}
    /\ cv = NoCV /\ job = NoJob

\* invocation t is made once the invocations before it have returned
Start(t) ==
    /\ call[t].at = "waiting"
    /\ \A earlier \in 1..(t - 1) : call[earlier].at = "ended"
    /\ Moves(t, "fit_transform")
    /\ UNCHANGED <<cv, job, adapter, vectorizer, result, ret>>

NextHistory ==
    \E t \in Calls :
        \/ Start(t)
        \/ LearnVocabulary(t)
        \/ FitIdf(t)
        \/ TransformAndCompare(t)
        \/ ScoreConcurrent(t)

SpecHistory == InitHistory /\ [][NextHistory]_vars

(***************************************************************************)
(* Properties.                                                             *)
(***************************************************************************)
Returned == result.status = "returned"
MatchScoreOf(r) == r.analysis.match_score

\* C1: every JobAnalysis that analyze_job_match returns has qualification_score,
\* competition_score, strategic_score, overall_score and confidence within [0,100],
\* and the MatchScore constructor never rejects what the scorers hand it.
C1_ScoresWithinRange ==
    /\ Returned =>
          /\ MatchScoreOf(result).qualification_score \in 0..10000
          /\ MatchScoreOf(result).competition_score \in 0..10000
          /\ MatchScoreOf(result).strategic_score \in 0..10000
          /\ MatchScoreOf(result).overall_score \in 0..1000000
          /\ MatchScoreOf(result).confidence \in 0..10000
    /\ ~(result.status = "raised" /\ result.error = "MatchScore ValidationError")

\* an analysis whose qualification sum exceeds 100 before the cap
C1_Witness ==
    /\ Returned
    /\ MatchScoreOf(result).qualification_score = 10000
    /\ result.analysis.metadata.qualification_details.base_score
         + result.analysis.metadata.qualification_details.bonus_score > 10000

\* C2: in every JobAnalysis produced, overall_score equals
\* 0.6*qualification_score + 0.25*competition_score + 0.15*strategic_score of the
\* same record.
C2_OverallIsWeightedSum ==
    Returned =>
        MatchScoreOf(result).overall_score =
            60 * MatchScoreOf(result).qualification_score
            + 25 * MatchScoreOf(result).competition_score
            + 15 * MatchScoreOf(result).strategic_score

\* an analysis whose three dimension scores differ pairwise
C2_Witness ==
    /\ Returned
    /\ MatchScoreOf(result).qualification_score # MatchScoreOf(result).competition_score
    /\ MatchScoreOf(result).competition_score # MatchScoreOf(result).strategic_score
    /\ MatchScoreOf(result).qualification_score # MatchScoreOf(result).strategic_score

\* C3: when the adapter call raises, analyze_job_match still returns a complete
\* JobAnalysis: the five numeric fields populated, a recommendation, empty key_matches
\* and gaps, and a reasoning that says "error" and names the failure; nothing is raised.
C3_AdapterFailureDegrades ==
    adapter.outcome = "raises" =>
        /\ Returned
        /\ MatchScoreValid(MatchScoreOf(result))
        /\ result.analysis.recommendation \in {"apply", "maybe", "skip"}
        /\ result.analysis.key_matches = <<>>
        /\ result.analysis.gaps = <<>>
        /\ Contains(result.analysis.reasoning, <<"e","r","r","o","r">>)
        /\ Contains(result.analysis.reasoning, adapter.error)

\* an analysis returned after the adapter raised
C3_Witness ==
    /\ adapter.outcome = "raises"
    /\ Returned
    /\ result.analysis.metadata.analysis_data = DegradedAnalysis(adapter.error)

\* C4: whatever the adapter returns without raising, malformed output included,
\* analyze_job_match returns a JobAnalysis and raises nothing.
C4_MalformedOutputTolerated ==
    adapter.outcome = "responds" => Returned

\* C5: _determine_recommendation is the ordered four-rule reference: Apply if overall
\* >= 75 and confidence >= 70; else Apply if overall >= 60 and qualification >= 60; else
\* Maybe if overall >= 45 and confidence >= 60; else Skip.  Overall 75 with confidence 70
\* is Apply whatever the qualification; overall just below 75 with confidence 70 is
\* decided by rule 2 or rule 3.
C5_RecommendationRule ==
    (call.fn = "_determine_recommendation" /\ ret.status = "returned") =>
        LET o == call.overall_score
            c == call.confidence
            q == call.qualification_score
            apply == (o >= 750000 /\ c >= 7000) \/ (o >= 600000 /\ q >= 6000)
            maybe == ~apply /\ o >= 450000 /\ c >= 6000
        IN  /\ ret.value = "apply" <=> apply
            /\ ret.value = "maybe" <=> maybe
            /\ ret.value = "skip" <=> (~apply /\ ~maybe)
            /\ (o = 750000 /\ c = 7000) => ret.value = "apply"
            /\ (o \in {749000, 749999} /\ c = 7000) =>
                   ret.value = (IF q >= 6000 THEN "apply" ELSE "maybe")

\* overall exactly 75 and confidence exactly 70 with a failing qualification: Apply
C5_Witness ==
    /\ call.fn = "_determine_recommendation"
    /\ call.overall_score = 750000 /\ call.confidence = 7000
    /\ call.qualification_score = 0
    /\ ret.status = "returned" /\ ret.value = "apply"

\* C6: in every JobAnalysis produced, recommendation is the recommendation rule applied
\* to that record's own overall_score, confidence and qualification_score, so equal
\* MatchScores carry equal recommendations.
C6_RecommendationFromMatchScore ==
    Returned =>
        result.analysis.recommendation =
            DetermineRecommendation(MatchScoreOf(result).overall_score,
                                    MatchScoreOf(result).confidence,
                                    MatchScoreOf(result).qualification_score)

\* an analysis decided by its qualification score: overall in [60,75), qualification
\* below 60, hence not Apply
C6_Witness ==
    /\ Returned
    /\ MatchScoreOf(result).overall_score >= 600000
    /\ MatchScoreOf(result).overall_score < 750000
    /\ MatchScoreOf(result).qualification_score < 6000
    /\ result.analysis.recommendation = "maybe"

\* C7: _calculate_confidence returns a value in [20,95] for every triple of dimension
\* scores in [0,100] and every semantic analysis, extreme spreads included.
C7_ConfidenceWithinBounds ==
    (call.fn = "_calculate_confidence" /\ ret.status # "none") =>
        /\ ret.status = "returned"
        /\ ret.value \in 2000..9500

\* the extreme spread qual = 100, comp = 0, strat = 0
C7_Witness ==
    /\ call.fn = "_calculate_confidence"
    /\ call.qualification_score = 10000
    /\ call.competition_score = 0 /\ call.strategic_score = 0
    /\ ret.status = "returned"

\* the four scores that the semantic analysis must not influence
NumericScores(r) ==
    <<MatchScoreOf(r).qualification_score, MatchScoreOf(r).competition_score,
      MatchScoreOf(r).strategic_score, MatchScoreOf(r).overall_score>>

\* C8: the qualification, competition, strategic and overall scores do not depend on
\* the semantic-analysis result: after an analysis of a resume and a job, another run on
\* the same resume and job, whatever the adapter returns or raises, produces an analysis
\* with the same four scores.
C8_ScoresWhateverAdapterReturns ==
    [][(result.status = "returned" /\ cv' = cv /\ job' = job)
       => (result'.status = "returned" /\ NumericScores(result') = NumericScores(result))]_vars

\* the part of C8 that the code keeps: two consecutive analyses of the same resume and
\* job that both return carry the same four scores
ScoresEqualWhenBothReturn ==
    [][(result.status = "returned" /\ result'.status = "returned"
        /\ cv' = cv /\ job' = job)
       => NumericScores(result') = NumericScores(result)]_vars

\* C9: _calculate_skill_similarity returns exactly 0.0, without vectorising, whenever
\* either list is empty, and for all inputs, in either argument order, the float it
\* returns lies in [0,1].
C9_SimilarityWithinUnitInterval ==
    (call.fn = "_calculate_skill_similarity" /\ ret.status = "returned") =>
        /\ FLessEq(FZero, ret.float) /\ FLessEq(ret.float, FOne)
        /\ (call.cv_skills = <<>> \/ call.job_skills = <<>>) =>
               /\ ret.float = FZero
               /\ ret.via = "empty"
               /\ vectorizer = Unfitted

\* the substring fallback as the claim states it: the share of required skills that,
\* lower-cased and trimmed, are a substring of or contain some candidate skill
FallbackReference(cv_skills, job_skills) ==
    LET norm(x) == Strip(Lower(x))
        matched == {i \in DOMAIN job_skills :
                      \E k \in DOMAIN cv_skills :
                         \/ Contains(norm(cv_skills[k]), norm(job_skills[i]))
                         \/ Contains(norm(job_skills[i]), norm(cv_skills[k]))}
    IN  (Cardinality(matched) * 1000) \div Len(job_skills)

\* C10: _calculate_skill_similarity never raises; whenever vectorisation raises it
\* returns the substring fallback value, each required skill counted at most once, and
\* the fallback is used only when vectorisation raises.
C10_FallbackOnVectorizationError ==
    (call.fn = "_calculate_skill_similarity" /\ ret.status # "none") =>
        /\ ret.status = "returned"
        /\ (call.cv_skills # <<>> /\ call.job_skills # <<>>
            /\ VectorizationRaises(call.cv_skills, call.job_skills)) =>
               /\ ret.via = "fallback"
               /\ ret.value = FallbackReference(call.cv_skills, call.job_skills)
               /\ ret.value <= 1000
        /\ ret.via = "fallback" =>
               /\ call.cv_skills # <<>> /\ call.job_skills # <<>>
               /\ VectorizationRaises(call.cv_skills, call.job_skills)

\* a fallback result where a required skill matches two candidate skills
C10_Witness ==
    /\ call.fn = "_calculate_skill_similarity"
    /\ ret.status = "returned" /\ ret.via = "fallback"
    /\ \E i \in DOMAIN call.job_skills :
          Cardinality({k \in DOMAIN call.cv_skills :
              \/ Contains(Strip(Lower(call.cv_skills[k])), Strip(Lower(call.job_skills[i])))
              \/ Contains(Strip(Lower(call.job_skills[i])), Strip(Lower(call.cv_skills[k])))})
            >= 2


\* C11: every invocation of analyze_job_match eventually ends: the call of the
\* semantic-analysis adapter is bounded by a timeout, so an adapter that never responds
\* is abandoned and treated as a failure, and a degraded but complete JobAnalysis is
\* produced.
C11_EveryInvocationEnds ==
    (call.fn = "analyze_job_match") ~> (call.fn = "analyze_job_match" /\ call.at = "ended")


\* C12: when analyze_job_match is invoked concurrently on the same JobMatcher, every
\* invocation returns the MatchScore and the Recommendation it returns when it runs
\* alone: no interleaving of the steps that fit and apply the shared vectorizer makes
\* an invocation's similarity use another invocation's vocabulary or weights, or
\* diverts it to the substring fallback.
C12_ConcurrentAsAlone ==
    \A t \in Threads :
        (call[t].fn = "analyze_job_match" /\ call[t].at = "ended") =>
            /\ ret[t].via = CalculateSkillSimilarity(call[t].cv.skills,
                                                     call[t].job.skills_required,
                                                     Unfitted).via
            /\ result[t].status = "returned"
            /\ result[t].analysis.match_score =
                   AnalyzeJobMatch(call[t].cv, call[t].job, adapter,
                                   Unfitted).result.analysis.match_score
            /\ result[t].analysis.recommendation =
                   AnalyzeJobMatch(call[t].cv, call[t].job, adapter,
                                   Unfitted).result.analysis.recommendation


\* C13: MatchOutputParser.parse uses the line-scanner fallback exactly when strict JSON
\* decoding of the text fails; when decoding succeeds the decoded value is returned
\* unchanged and the line scanner is not run.
C13_FallbackExactlyOnDecodeFailure ==
    (call.fn = "parse" /\ ret.status # "none") =>
        /\ (call.text.loads # "decoded") <=>
               (ret.status = "returned" /\ ret.via = "_extract_fallback")
        /\ (call.text.loads = "decoded") =>
               /\ ret.status = "returned"
               /\ ret.via = "json.loads"
               /\ ret.value = call.text.value


\* the first scenario analysed with an empty semantic analysis
FintechAnalysed ==
    /\ cv = FintechCV /\ job = FintechJob
    /\ Returned
    /\ result.analysis.key_matches = <<>> /\ result.analysis.gaps = <<>>

\* C14: for candidate skills [python, aws, docker], 6 years, industries [fintech] and a
\* job with skills [python, kubernetes], 5 years, industry fintech, and an empty
\* semantic analysis: experienceMatch is 1.0, the lexical similarity is above 0, the
\* competition score includes the +15 industry bonus, and the recommendation is Apply.
C14_ScenarioApply ==
    FintechAnalysed =>
        /\ result.analysis.metadata.qualification_details.experience_match = 10
        /\ result.analysis.metadata.qualification_details.skill_similarity > 0
        /\ result.analysis.metadata.competition_details.industry_experience_bonus = 1500
        /\ MatchScoreOf(result).competition_score = 5000 + 1500
        /\ result.analysis.recommendation = "apply"

\* C14 as amended: in that scenario experienceMatch is 1.0, the lexical similarity is
\* above 0, the competition score is 50 plus the industry bonus of 15, and the
\* recommendation is Maybe: the qualification score is below 60 and the overall score
\* is between 60 and 75.
C14_ScenarioMaybe ==
    FintechAnalysed =>
        /\ result.analysis.metadata.qualification_details.experience_match = 10
        /\ result.analysis.metadata.qualification_details.skill_similarity > 0
        /\ result.analysis.metadata.competition_details.industry_experience_bonus = 1500
        /\ MatchScoreOf(result).competition_score = 5000 + 1500
        /\ MatchScoreOf(result).qualification_score < 6000
        /\ MatchScoreOf(result).overall_score \in 600000..749999
        /\ result.analysis.recommendation = "maybe"

\* the scenario analysed after the adapter answered with an analysis without entries
C14_Witness ==
    /\ FintechAnalysed
    /\ adapter.outcome = "responds"
    /\ result.analysis.recommendation = "maybe"

\* a candidate with 1 year analysed for a job requiring MaxYears years, without
\* education or certification bonus, the semantic analysis holding no key match
JuniorAnalysed ==
    /\ cv.id # "none" /\ job.id # "none"
    /\ cv.experience_years = 1 /\ job.experience_required = MaxYears
    /\ Returned
    /\ result.analysis.metadata.qualification_details.bonus_score = 0
    /\ result.analysis.key_matches = <<>>

\* C15: for a candidate with 1 year of experience and a job requiring 8 years, with no
\* education or certification bonus and a semantic analysis with no key matches:
\* experienceMatch is 0.2, qualification_score is below 50 for every lexical
\* similarity, and the recommendation is Skip.
C15_JuniorSkipped ==
    JuniorAnalysed =>
        /\ result.analysis.metadata.qualification_details.experience_match = 2
        /\ MatchScoreOf(result).qualification_score < 5000
        /\ result.analysis.recommendation = "skip"


\* C15 as amended: for such a candidate experienceMatch is 0.2 and qualification_score
\* is 8 plus 60 times the lexical similarity, which is below 50 exactly when the
\* similarity is below 0.7; the recommendation is Skip whenever qualification_score
\* is below 40.
C15_JuniorSkippedBelowForty ==
    JuniorAnalysed =>
        /\ result.analysis.metadata.qualification_details.experience_match = 2
        /\ MatchScoreOf(result).qualification_score =
               800 + 6 * result.analysis.metadata.qualification_details.skill_similarity
        /\ MatchScoreOf(result).qualification_score < 5000 <=>
               result.analysis.metadata.qualification_details.skill_similarity < 700
        /\ MatchScoreOf(result).qualification_score < 4000 =>
               result.analysis.recommendation = "skip"

\* such a candidate with some similarity, an overall score of 45 or more, and Skip
C15_Witness ==
    /\ JuniorAnalysed
    /\ result.analysis.metadata.qualification_details.skill_similarity > 0
    /\ MatchScoreOf(result).qualification_score < 4000
    /\ MatchScoreOf(result).overall_score >= 450000
    /\ result.analysis.recommendation = "skip"


\* C16: a CVData or JobPosting is never modified after it is created: no operation,
\* whether analyze_job_match or update_cv_analysis, on success or on failure of its
\* adapter call, changes any field of an existing record.
C16_RecordsNeverModified == [][cv' = cv /\ job' = job]_vars


\* C17: _calculate_confidence equals the reference: start at 70; +15 if qualification
\* > 80, else +5 if > 60, else -15 if < 40; +10 if key_matches has more than 3 entries;
\* -10 if gaps has more than 2 entries; -10 if the population standard deviation of the
\* three scores exceeds 20; the result clamped to [20,95].  A missing key_matches or
\* gaps counts as an empty list.
C17_ConfidenceReference ==
    (call.fn = "_calculate_confidence" /\ ret.status # "none") =>
        LET q == call.qualification_score
            c == call.competition_score
            s == call.strategic_score
            \* the entries of analysis_data[key], a missing key counting as an empty list
            EntriesOf(key) ==
                IF key \in DOMAIN call.analysis_data.d
                THEN Len(call.analysis_data.d[key].items) ELSE 0
            \* 27 times the population variance, in squared hundredths: the squared
            \* deviations of 3x from the sum
            VarianceTimes27 ==
                (3 * q - (q + c + s)) * (3 * q - (q + c + s))
                + (3 * c - (q + c + s)) * (3 * c - (q + c + s))
                + (3 * s - (q + c + s)) * (3 * s - (q + c + s))
            start == 70
            qualification == IF q > 8000 THEN 15 ELSE IF q > 6000 THEN 5
                             ELSE IF q < 4000 THEN -15 ELSE 0
            matches == IF EntriesOf("key_matches") > 3 THEN 10 ELSE 0
            gaps == IF EntriesOf("gaps") > 2 THEN -10 ELSE 0
            spread == IF VarianceTimes27 > 27 * 400 * 10000
                      THEN -10 ELSE 0
            total == start + qualification + matches + gaps + spread
        IN  /\ ret.status = "returned"
            /\ ret.value = 100 * (IF total < 20 THEN 20 ELSE IF total > 95 THEN 95 ELSE total)

\* a call without key_matches and gaps, scores 60, 60 and 17.57: only the spread counts
C17_Witness ==
    /\ call.fn = "_calculate_confidence"
    /\ call.analysis_data = PyDict(<<>>)
    /\ call.qualification_score = 6000 /\ call.competition_score = 6000
    /\ call.strategic_score = 1757
    /\ ret.status = "returned" /\ ret.value = 6000


\* C18: _calculate_experience_match returns 1.0 when the required years are 0 or the
\* candidate's years reach them; otherwise 0.8 from 80% of the required years on, 0.6
\* from 60%, 0.4 from 40%, else 0.2, the thresholds inclusive; and the result does not
\* decrease in the candidate's years for a fixed requirement.  Values are in tenths.
C18_ExperienceStaircase ==
    (call.fn = "_calculate_experience_match" /\ ret.status = "returned") =>
        LET candidate == call.cv_experience
            required == call.job_experience
            expected ==
                IF required = 0 \/ candidate >= required THEN 10
                ELSE IF 100 * candidate >= 80 * required THEN 8
                ELSE IF 100 * candidate >= 60 * required THEN 6
                ELSE IF 100 * candidate >= 40 * required THEN 4
                ELSE 2
        IN  /\ ret.value = expected
            /\ \A fewer \in 0..candidate :
                  CalculateExperienceMatch(fewer, required) <= ret.value

\* four of five required years give 0.8
C18_Witness ==
    /\ call.fn = "_calculate_experience_match"
    /\ call.cv_experience = 4 /\ call.job_experience = 5
    /\ ret.status = "returned" /\ ret.value = 8


\* C19: _calculate_qualification_score returns min(100, base + educationBonus +
\* certificationBonus), where base = (similarity * 0.6 + experienceMatch * 0.4) * 100,
\* educationBonus is 10 if some education entry contains bachelor, master, phd or
\* degree in any case, and certificationBonus = min(10, 5 * the number of
\* certifications whose text contains at least one required skill), a certification
\* counting once however many skills it contains.  Scores are in hundredths.
C19_QualificationFormula ==
    (call.fn = "_calculate_qualification_score" /\ ret.status = "returned") =>
        LET candidate == call.cv
            posting == call.job
            similarity ==
                CalculateSkillSimilarity(candidate.skills, posting.skills_required,
                                         Unfitted).value
            experienceMatch ==
                CalculateExperienceMatch(candidate.experience_years,
                                         posting.experience_required)
            base == 6 * similarity + 400 * experienceMatch
            degreeWords == {<<"b","a","c","h","e","l","o","r">>, <<"m","a","s","t","e","r">>, <<"p","h","d">>, <<"d","e","g","r","e","e">>}
            educationBonus ==
                IF \E i \in DOMAIN candidate.education :
                      \E word \in degreeWords : Contains(Lower(candidate.education[i]), word)
                THEN 1000 ELSE 0
            counted ==
                {i \in DOMAIN candidate.certifications :
                    \E k \in DOMAIN posting.skills_required :
                       Contains(Lower(candidate.certifications[i]),
                                Lower(posting.skills_required[k]))}
            certificationBonus == Min(1000, 500 * Cardinality(counted))
        IN  ret.value = Min(10000, base + educationBonus + certificationBonus)

\* one certification that contains two required skills counts once, and the sum
\* 92 + 10 + 5 is cut to 100
C19_Witness ==
    /\ call.fn = "_calculate_qualification_score"
    /\ call.cv.certifications = <<<<"A","W","S"," ","a","n","d"," ","P","y","t","h","o","n">>>>
    /\ call.job.skills_required = <<<<"p","y","t","h","o","n">>, <<"a","w","s">>, <<"d","o","c","k","e","r">>>>
    /\ ret.status = "returned"
    /\ ret.details.certification_bonus = 500
    /\ ret.details.education_bonus = 1000
    /\ ret.details.base_score = 9200
    /\ ret.value = 10000


\* C20: _calculate_competition_score returns clamp(50 - penalty + uniqueSkillsBonus +
\* industryBonus + leadershipBonus, 0, 100): penalty = min(20, 2 * (candidateYears -
\* requiredYears)) if candidateYears > 1.5 * requiredYears, else 0, so that a job
\* requiring 0 years penalises every candidate with at least 1 year; uniqueSkillsBonus
\* = min(20, 5 * the number of candidate skills containing a specialised keyword);
\* industryBonus = 15 if the job industry is present and overlaps some candidate
\* industry by substring in either direction; leadershipBonus = 10 if some candidate
\* title contains a leadership keyword.  Scores are in hundredths.
C20_CompetitionFormula ==
    (call.fn = "_calculate_competition_score" /\ ret.status = "returned") =>
        LET candidate == call.cv
            posting == call.job
            candidateYears == candidate.experience_years
            requiredYears == posting.experience_required
            penalty ==
                IF 10 * candidateYears > 15 * requiredYears
                THEN Min(20, 2 * (candidateYears - requiredYears)) ELSE 0
            specialised ==
                {<<"a","i">>, <<"m","a","c","h","i","n","e"," ","l","e","a","r","n","i","n","g">>, <<"b","l","o","c","k","c","h","a","i","n">>, <<"q","u","a","n","t","u","m">>, <<"c","l","o","u","d"," ","a","r","c","h","i","t","e","c","t","u","r","e">>}
            uniqueSkillsBonus ==
                Min(20, 5 * Cardinality({i \in DOMAIN candidate.skills :
                                            \E word \in specialised :
                                               Contains(Lower(candidate.skills[i]), word)}))
            Overlap(a, b) == Contains(Lower(a), Lower(b)) \/ Contains(Lower(b), Lower(a))
            industryBonus ==
                IF /\ posting.industry # NoneStr
                   /\ posting.industry[1] # <<>>
                   /\ \E i \in DOMAIN candidate.industries :
                         Overlap(candidate.industries[i], posting.industry[1])
                THEN 15 ELSE 0
            leadership ==
                {<<"l","e","a","d">>, <<"m","a","n","a","g","e","r">>, <<"d","i","r","e","c","t","o","r">>, <<"s","e","n","i","o","r">>, <<"p","r","i","n","c","i","p","a","l">>, <<"a","r","c","h","i","t","e","c","t">>}
            leadershipBonus ==
                IF \E i \in DOMAIN candidate.job_titles :
                      \E word \in leadership : Contains(Lower(candidate.job_titles[i]), word)
                THEN 10 ELSE 0
            total == 50 - penalty + uniqueSkillsBonus + industryBonus + leadershipBonus
        IN  /\ ret.value = 100 * Max(0, Min(100, total))
            /\ (requiredYears = 0 /\ candidateYears >= 1) =>
                   ret.details.overqualification_penalty > 0

\* one year against a posting that requires none: a penalty of 2 points, with the
\* industry and leadership bonuses 50 - 2 + 0 + 15 + 10 = 73
C20_Witness ==
    /\ call.fn = "_calculate_competition_score"
    /\ call.cv.experience_years = 1 /\ call.job.experience_required = 0
    /\ call.cv.industries = <<<<"F","I","N","T","E","C","H"," ","p","a","y","m","e","n","t","s">>>>
    /\ call.job.industry = SomeStr(<<"f","i","n","t","e","c","h">>)
    /\ call.cv.skills = <<>>
    /\ ret.status = "returned"
    /\ ret.details.overqualification_penalty = 200
    /\ ret.value = 7300


\* C21: _calculate_strategic_score returns clamp(60 + growthBonus +
\* skillDevelopmentBonus + companySizeFit, 0, 100), where on the ladder senior = 1,
\* lead = 2, principal = 3, manager = 4, director = 5 currentLevel is the highest level
\* whose keyword occurs in any candidate title, targetLevel the highest level whose
\* keyword occurs in the job title, growthBonus is 20 if targetLevel > currentLevel, 10
\* if they are equal and 0 if targetLevel < currentLevel, and skillDevelopmentBonus =
\* min(15, 3 * the number of required skills containing an emerging-skill keyword).
\* A level is 0 when no keyword occurs.  Scores are in hundredths.
C21_StrategicFormula ==
    (call.fn = "_calculate_strategic_score" /\ ret.status = "returned") =>
        LET candidate == call.cv
            posting == call.job
            ladder == [senior |-> 1, lead |-> 2, principal |-> 3, manager |-> 4,
                       director |-> 5]
            word == [senior |-> <<"s","e","n","i","o","r">>, lead |-> <<"l","e","a","d">>, principal |-> <<"p","r","i","n","c","i","p","a","l">>,
                     manager |-> <<"m","a","n","a","g","e","r">>, director |-> <<"d","i","r","e","c","t","o","r">>]
            Highest(levels) == IF levels = {} THEN 0
                               ELSE CHOOSE n \in levels : \A m \in levels : m <= n
            currentLevel ==
                Highest({ladder[r] : r \in {rr \in DOMAIN ladder :
                            \E i \in DOMAIN candidate.job_titles :
                               Contains(Lower(candidate.job_titles[i]), word[rr])}})
            targetLevel ==
                Highest({ladder[r] : r \in {rr \in DOMAIN ladder :
                            Contains(Lower(posting.title), word[rr])}})
            growthBonus == IF targetLevel > currentLevel THEN 20
                           ELSE IF targetLevel = currentLevel THEN 10 ELSE 0
            emerging == {<<"a","i">>, <<"m","l">>, <<"c","l","o","u","d">>, <<"d","e","v","o","p","s">>, <<"k","u","b","e","r","n","e","t","e","s">>, <<"r","e","a","c","t">>,
                         <<"p","y","t","h","o","n">>, <<"a","w","s">>}
            skillDevelopmentBonus ==
                Min(15, 3 * Cardinality({i \in DOMAIN posting.skills_required :
                                            \E e \in emerging :
                                               Contains(Lower(posting.skills_required[i]), e)}))
            total == 6000 + 100 * growthBonus + 100 * skillDevelopmentBonus
                     + ret.details.company_size_fit
        IN  /\ ret.details.current_level = currentLevel
            /\ ret.details.target_level = targetLevel
            /\ ret.value = Max(0, Min(10000, total))

\* a senior developer against a Senior Engineering Manager posting with six emerging
\* skills at a startup: target 4 above current 1, and 60 + 20 + 15 + 10 cut to 100
C21_Witness ==
    /\ call.fn = "_calculate_strategic_score"
    /\ call.cv.job_titles = <<<<"S","e","n","i","o","r"," ","D","e","v">>>>
    /\ call.job.title = <<"S","e","n","i","o","r"," ","E","n","g","i","n","e","e","r","i","n","g"," ","M","a","n","a","g","e","r">>
    /\ ret.status = "returned"
    /\ ret.details.current_level = 1 /\ ret.details.target_level = 4
    /\ ret.details.skill_development_bonus = 1500
    /\ ret.details.company_size_fit = 1000
    /\ ret.value = 10000


\* C22: when no career-ladder keyword matches (neither any candidate title nor the job
\* title contains senior, lead, principal, manager or director), the strategic
\* scorer's growth bonus is 0.
C22_NoMatchNoGrowth ==
    (/\ call.fn = "_calculate_strategic_score" /\ ret.status = "returned"
     /\ \A k \in DOMAIN growth_indicators :
           /\ ~Contains(Lower(call.job.title), growth_indicators[k])
           /\ \A i \in DOMAIN call.cv.job_titles :
                 ~Contains(Lower(call.cv.job_titles[i]), growth_indicators[k]))
        => ret.details.career_growth_potential = 0


\* C23: companySizeFit is decided by the first matching signal only: if the company
\* name contains 'startup' or the description contains 'small', it is 10 when the
\* candidate's experience is below 5 years and 5 otherwise, and the enterprise branch
\* is not evaluated even when the posting also signals 'enterprise' or 'fortune' and
\* the candidate has more than 3 years; only with no startup/small signal and an
\* 'enterprise'/'fortune' signal is it 10 for more than 3 years; with no signal it is 5.
C23_FirstSignalDecides ==
    (call.fn = "_calculate_strategic_score" /\ ret.status = "returned") =>
        LET years == call.cv.experience_years
            company == Lower(call.job.company)
            description == Lower(call.job.description)
            startupSignal == Contains(company, <<"s","t","a","r","t","u","p">>) \/ Contains(description, <<"s","m","a","l","l">>)
            enterpriseSignal ==
                Contains(company, <<"e","n","t","e","r","p","r","i","s","e">>) \/ Contains(description, <<"f","o","r","t","u","n","e">>)
            fit == ret.details.company_size_fit
        IN  /\ (startupSignal /\ years < 5) => fit = 1000
            /\ (startupSignal /\ years >= 5) => fit = 500
            /\ (~startupSignal /\ enterpriseSignal /\ years > 3) => fit = 1000
            /\ (~startupSignal /\ enterpriseSignal /\ years <= 3) => fit = 500
            /\ (~startupSignal /\ ~enterpriseSignal) => fit = 500

\* a posting with both signals and a candidate with 6 years: the startup branch gives
\* 5, the enterprise branch would have given 10
C23_Witness ==
    /\ call.fn = "_calculate_strategic_score"
    /\ call.job.company = <<"S","t","a","r","t","u","p"," ","E","n","t","e","r","p","r","i","s","e">>
    /\ call.cv.experience_years = 6
    /\ ret.status = "returned"
    /\ ret.details.company_size_fit = 500


\* the record of _extract_fallback for the text of the call
ScannerRecord ==
    /\ ret.status = "returned"
    /\ ret.value.t = "dict"
    /\ DOMAIN ret.value.d = {"qualification_analysis", "competition_analysis",
                             "strategic_analysis", "key_matches", "gaps", "reasoning"}
    /\ ret.value.d.qualification_analysis = PyStr(<<>>)
    /\ ret.value.d.competition_analysis = PyStr(<<>>)
    /\ ret.value.d.strategic_analysis = PyStr(<<>>)
    /\ ret.value.d.key_matches.t = "list"
    /\ ret.value.d.gaps.t = "list"
    /\ ret.value.d.reasoning =
           PyStr(IF Len(call.text.raw) <= 500 THEN call.text.raw
                 ELSE [i \in 1..503 |->
                          IF i <= 500 THEN call.text.raw[i] ELSE "."])

\* C24: for every text that fails JSON decoding, MatchOutputParser.parse returns a
\* record instead of an error, and the record has the six fields
\* qualification_analysis, competition_analysis, strategic_analysis (empty text),
\* key_matches and gaps (lists), and reasoning, which is the whole text when it has at
\* most 500 characters and otherwise its first 500 characters followed by '...'.
C24_RecordOnEveryDecodeFailure ==
    (call.fn = "parse" /\ ret.status # "none" /\ call.text.loads # "decoded")
        => ScannerRecord

\* the same for the texts on which json.loads raises JSONDecodeError
RecordOnJSONDecodeError ==
    (call.fn = "parse" /\ ret.status # "none" /\ call.text.loads = "JSONDecodeError")
        => ScannerRecord


\* C25: the JobAnalysis returned by analyze_job_match identifies its inputs and keeps
\* every explanation: cv_id and job_id are the ids of the resume and the job passed in,
\* key_matches and gaps are the lists of the semantic analysis that was used, and
\* metadata holds the detail maps of the three scorers for this resume and job and the
\* raw semantic-analysis payload, the substituted degraded payload when the adapter
\* failed.
C25_AnalysisKeepsInputsAndDetails ==
    Returned =>
        LET analysis == result.analysis
            payload == analysis.metadata.analysis_data
            ListOf(key) == IF key \in DOMAIN payload.d THEN payload.d[key].items ELSE <<>>
        IN  /\ analysis.cv_id = cv.id
            /\ analysis.job_id = job.id
            /\ analysis.key_matches = ListOf("key_matches")
            /\ analysis.gaps = ListOf("gaps")
            /\ (adapter.outcome = "responds" /\ adapter.text.loads = "decoded")
                  => payload = adapter.text.value
            /\ (adapter.outcome = "responds" /\ adapter.text.loads = "JSONDecodeError")
                  => payload = ExtractFallback(adapter.text.raw)
            /\ adapter.outcome = "raises"
                  => /\ payload = DegradedAnalysis(adapter.error)
                     /\ analysis.key_matches = <<>> /\ analysis.gaps = <<>>
            /\ analysis.metadata.qualification_details =
                   CalculateQualificationScore(cv, job, Unfitted).details
            /\ analysis.metadata.competition_details =
                   CalculateCompetitionScore(cv, job).details
            /\ analysis.metadata.strategic_details =
                   CalculateStrategicScore(cv, job, payload).details
            /\ analysis.match_score.qualification_score =
                   6 * analysis.metadata.qualification_details.skill_similarity
                   + 400 * analysis.metadata.qualification_details.experience_match
                   + analysis.metadata.qualification_details.bonus_score
               \/ analysis.match_score.qualification_score = 10000

\* an analysis that carries the key matches and gaps of the adapter's answer
C25_Witness ==
    /\ Returned
    /\ adapter.outcome = "responds"
    /\ adapter.text = JsonText(SemanticAnalysis(MaxMatches, MaxGaps))
    /\ Len(result.analysis.key_matches) = MaxMatches
    /\ Len(result.analysis.gaps) = MaxGaps
    /\ result.analysis.cv_id = "cv1" /\ result.analysis.job_id = "job1"
    /\ result.analysis.metadata.analysis_data = SemanticAnalysis(MaxMatches, MaxGaps)
    /\ result.analysis.metadata.competition_details.industry_experience_bonus = 1500


\* C26: in every JobAnalysis produced by analyze_job_match, overall_score >= 75 implies
\* the recommendation Apply whatever the confidence is: competition never exceeds 95
\* and strategic never exceeds 100, so overall >= 75 forces qualification >= 60 and the
\* second rule applies when the confidence test of the first fails.
C26_HighOverallIsApply ==
    Returned =>
        /\ MatchScoreOf(result).competition_score <= 9500
        /\ MatchScoreOf(result).strategic_score <= 10000
        /\ MatchScoreOf(result).overall_score >= 750000 =>
              /\ MatchScoreOf(result).qualification_score >= 6000
              /\ result.analysis.recommendation = "apply"

\* an analysis with overall 83.15 and confidence 65: Apply by the second rule
C26_Witness ==
    /\ Returned
    /\ MatchScoreOf(result).overall_score >= 750000
    /\ MatchScoreOf(result).confidence < 7000
    /\ result.analysis.recommendation = "apply"

\* C27: whenever qualification_score < 40 and the semantic analysis used has at most 3
\* key matches, the recommendation is Skip for every competition and strategic score;
\* in particular every analysis produced after an adapter failure with
\* qualification_score < 40 is Skip.
C27_LowQualificationIsSkip ==
    Returned =>
        /\ (MatchScoreOf(result).qualification_score < 4000
            /\ Len(result.analysis.key_matches) <= 3)
              => result.analysis.recommendation = "skip"
        /\ (MatchScoreOf(result).qualification_score < 4000 /\ adapter.outcome = "raises")
              => result.analysis.recommendation = "skip"

\* an analysis after an adapter failure with qualification below 40 and an overall
\* score of at least 45, where the third rule would give Maybe at a confidence of 60
C27_Witness ==
    /\ Returned
    /\ adapter.outcome = "raises"
    /\ MatchScoreOf(result).qualification_score < 4000
    /\ MatchScoreOf(result).overall_score >= 450000
    /\ MatchScoreOf(result).confidence = 5500
    /\ result.analysis.recommendation = "skip"


\* C28: the value _calculate_confidence computes before clamping is always a multiple
\* of 5 between 45 and 95 inclusive, so the final clamp to [20,95] never changes it and
\* no confidence below 45 is ever reported.
C28_BeforeClampFrom45 ==
    (call.fn = "_calculate_confidence" /\ ret.status = "returned") =>
        /\ ret.base_confidence % 500 = 0
        /\ ret.base_confidence >= 4500 /\ ret.base_confidence <= 9500
        /\ ret.value = ret.base_confidence
        /\ ret.value >= 4500

\* C28, amended: the value before clamping is always a multiple of 5 between 35 and 95
\* inclusive, so the final clamp to [20,95] never changes it and no confidence below 35
\* is ever reported.
C28_BeforeClampFrom35 ==
    (call.fn = "_calculate_confidence" /\ ret.status = "returned") =>
        /\ ret.base_confidence % 500 = 0
        /\ ret.base_confidence >= 3500 /\ ret.base_confidence <= 9500
        /\ ret.value = ret.base_confidence
        /\ ret.value >= 3500

\* qualification 0, competition 60, strategic 100 with three gaps: 70 - 15 - 10 - 10
C28_Witness ==
    /\ call.fn = "_calculate_confidence"
    /\ call.qualification_score = 0 /\ call.competition_score = 6000
    /\ call.strategic_score = 10000
    /\ call.analysis_data = PyDict([gaps |-> PyList(Entries(3))])
    /\ ret.status = "returned"
    /\ ret.base_confidence = 3500 /\ ret.value = 3500


\* C29: scoring is history-independent on one JobMatcher: after any sequence of earlier
\* analyze_job_match calls on other pairs, including calls whose vectorization failed
\* and used the fallback, analysing a resume and a job with a given adapter result
\* yields the MatchScore and the Recommendation of analysing it first on a fresh
\* JobMatcher; the vocabulary left in the shared vectorizer never influences a later
\* similarity.
C29_HistoryIndependent ==
    \A t \in Calls :
        (call[t].fn = "analyze_job_match" /\ call[t].at = "ended") =>
            LET fresh == AnalyzeJobMatch(call[t].cv, call[t].job, adapter, Unfitted).result
                alone == CalculateSkillSimilarity(call[t].cv.skills,
                                                  call[t].job.skills_required, Unfitted)
            IN  /\ ret[t].value = alone.value
                /\ ret[t].via = alone.via
                /\ result[t].status = fresh.status
                /\ result[t].status = "returned" =>
                      /\ result[t].analysis.match_score = fresh.analysis.match_score
                      /\ result[t].analysis.recommendation = fresh.analysis.recommendation

\* a third invocation that vectorises a four-term vocabulary after one that left three
\* terms in the vectorizer and one that fell back
C29_Witness ==
    /\ call[3].at = "ended"
    /\ call[1].cv.skills = <<<<"a","w","s">>>>
    /\ call[1].job.skills_required = <<<<"p","y","t","h","o","n">>, <<"a","w","s">>, <<"d","o","c","k","e","r">>>>
    /\ ret[1].via = "tfidf"
    /\ ret[2].via = "fallback"
    /\ call[3].cv.skills = <<<<"p","y","t","h","o","n">>, <<"a","w","s">>, <<"d","o","c","k","e","r">>>>
    /\ call[3].job.skills_required = <<<<"p","y","t","h","o","n">>, <<"k","u","b","e","r","n","e","t","e","s">>>>
    /\ ret[3].via = "tfidf" /\ ret[3].value = 260
    /\ result[3].status = "returned"


\* C30: in the fallback line scanner, scanning the lines in order, a line (trimmed) is
\* appended, its first character removed and trimmed again, to key_matches,
\* respectively gaps, if and only if it starts with '-' or the bullet character, is not
\* itself a header line, and the most recent header line before it is a matches: or
\* strengths: header, respectively a gaps: or weaknesses: header.  Bullet lines before
\* the first header are dropped, a header line is never added as an item even when it
\* starts with a bullet, a line with both kinds of header keyword selects key_matches,
\* and each bullet line is added to at most one list.
C30_ScannerSections ==
    (call.fn = "parse" /\ ret.status = "returned" /\ call.text.loads = "JSONDecodeError") =>
        LET lines == SplitLines(call.text.raw)
            Trimmed(i) == Strip(lines[i])
            Has(i, keyword) == Contains(Lower(Trimmed(i)), keyword)
            MatchesHeader(i) == Has(i, <<"m","a","t","c","h","e","s",":">>) \/ Has(i, <<"s","t","r","e","n","g","t","h","s",":">>)
            GapsHeader(i) ==
                (Has(i, <<"g","a","p","s",":">>) \/ Has(i, <<"w","e","a","k","n","e","s","s","e","s",":">>)) /\ ~MatchesHeader(i)
            Header(i) == MatchesHeader(i) \/ GapsHeader(i)
            BulletLine(i) ==
                /\ Trimmed(i) # <<>>
                /\ Trimmed(i)[1] \in {"-", Bullet}
                /\ ~Header(i)
            Under(i, IsSection(_)) ==
                \E h \in 1..(i - 1) :
                    /\ IsSection(h)
                    /\ \A later \in (h + 1)..(i - 1) : ~Header(later)
            matchLines == {i \in 1..Len(lines) : BulletLine(i) /\ Under(i, MatchesHeader)}
            gapLines == {i \in 1..Len(lines) : BulletLine(i) /\ Under(i, GapsHeader)}
            Nth(set, k) == CHOOSE i \in set : Cardinality({j \in set : j < i}) = k - 1
            Items(set) ==
                [k \in 1..Cardinality(set) |->
                    Strip(SubSeq(Trimmed(Nth(set, k)), 2, Len(Trimmed(Nth(set, k)))))]
        IN  /\ ret.value.d.key_matches.items = Items(matchLines)
            /\ ret.value.d.gaps.items = Items(gapLines)
            /\ matchLines \cap gapLines = {}
            /\ Len(ret.value.d.key_matches.items) + Len(ret.value.d.gaps.items)
                   <= Cardinality({i \in 1..Len(lines) : BulletLine(i)})

\* a header with both keywords, then an indented bullet line, then a header that
\* starts with a bullet: one key match and no gap
C30_Witness ==
    /\ call.fn = "parse"
    /\ call.text = RawText(<<"g","a","p","s",":"," ","a","n","d"," ","m","a","t","c","h","e","s",":","\n"," "," ","-"," ","a","w","s"," ","\n","-"," ","W","e","a","k","n","e","s","s","e","s",":"," ","f","e","w">>)
    /\ ret.status = "returned"
    /\ ret.value.d.key_matches.items = <<<<"a","w","s">>>>
    /\ ret.value.d.gaps.items = <<>>

====
